---------------------------- MODULE Spec2Model ----------------------------
(***************************************************************************)
(* Verification model of philrod1/meta-agent.                              *)
(*                                                                         *)
(*   - the guard evaluator          src/src/workflow/guards.py             *)
(*   - the workflow compiler        src/src/workflow/compiler.py           *)
(*   - the workflow executor        src/src/workflow/executor.py           *)
(*   - the recursive meta-agent     src/src/meta_agent.py                  *)
(*                                                                         *)
(* Three specifications share the variables of the module:                 *)
(*   SpecLoad   load_workflow applied to a bounded set of specifications   *)
(*   SpecRun    run_workflow on every bounded workflow load_workflow       *)
(*              accepts                                                    *)
(*   SpecSolve  MetaAgent.solve with nondeterministic collaborators        *)
(***************************************************************************)
EXTENDS Integers, Sequences, FiniteSets, TLC

(***************************************************************************)
(* Bounds of the model.                                                    *)
(***************************************************************************)
MaxLoadNodes == 2
MaxLoadEdges == 3
MaxEdges == 3
MaxTasks == 3
MaxOperands == 2
MaxX == 4
MaxPlan == 2
MaxGuards == 2

(***************************************************************************)
(* Python values that occur in a context.  Every value is a record         *)
(* [t, v] with an integer payload: ints carry themselves, bools carry 0/1, *)
(* None carries 0 and a string carries its index in StrTable.              *)
(***************************************************************************)
VInt(n) == [t |-> "int", v |-> n]
VBool(b) == [t |-> "bool", v |-> IF b THEN 1 ELSE 0]
VNone == [t |-> "none", v |-> 0]
VStr(k) == [t |-> "str", v |-> k]
\* a list of n elements, each the int 1, and a function object
VList(n) == [t |-> "list", v |-> n]
VFn == [t |-> "fn", v |-> 0]
Raise == [t |-> "raise", v |-> 0]

\* the strings of the model in ascending order, and str.lower() on them
StrTable == <<"", "OK", "ok", "r">>
StrLowerIdx == <<1, 3, 3, 4>>

IsNumeric(a) == a.t \in {"int", "bool"}

\* Python ==
PyEq(a, b) ==
    IF IsNumeric(a) /\ IsNumeric(b) THEN a.v = b.v
    ELSE a.t = b.t /\ a.v = b.v

\* Python <, which raises TypeError on values that are not ordered
PyLt(a, b) ==
    IF IsNumeric(a) /\ IsNumeric(b) THEN VBool(a.v < b.v)
    ELSE IF a.t = b.t /\ a.t \in {"str", "list"}
         THEN VBool(a.v < b.v)
         ELSE Raise

\* Python bool(value)
Truthy(a) ==
    CASE a.t = "int" -> a.v # 0
      [] a.t = "bool" -> a.v = 1
      [] a.t = "none" -> FALSE
      [] a.t = "str" -> StrTable[a.v] # ""
      [] a.t = "list" -> a.v # 0
      [] a.t = "fn" -> TRUE
      [] OTHER -> FALSE

(***************************************************************************)
(* Guard expressions.  An expression is the syntax tree ast.parse builds   *)
(* from the text:                                                          *)
(*   <<"Empty">>                      the empty (or blank) text            *)
(*   <<"SyntaxError">>                a text that does not parse           *)
(*   <<"Name", id>>                                                        *)
(*   <<"Constant", value>>                                                 *)
(*   <<"Compare", left, ops, comparators>>                                 *)
(*   <<"BoolOp", "And" | "Or", values>>  ("&&" and "||" are rewritten to   *)
(*                                     and/or before parsing)              *)
(*   <<"Call", func, args>>, <<"Attribute", value, attr>>,                 *)
(*   <<"UnaryNot", e>>, ...           anything else                        *)
(***************************************************************************)
Name(id) == <<"Name", id>>
Const(val) == <<"Constant", val>>
Cmp(l, op, r) == <<"Compare", l, <<op>>, <<r>>>>
BoolOp(op, vals) == <<"BoolOp", op, vals>>
Call(func, args) == <<"Call", func, args>>
Attribute(value, attr) == <<"Attribute", value, attr>>
UnaryNot(e) == <<"UnaryNot", e>>

\* str.lower() on the identifiers the model uses
LowerName(id) ==
    CASE id = "None" -> "none"
      [] id = "True" -> "true"
      [] id = "False" -> "false"
      [] id = "R" -> "r"
      [] id = "X" -> "x"
      [] OTHER -> id

\* expression.strip().lower(): identifiers and string literals are folded to
\* lower case, and the keywords True/False/None become plain names
RECURSIVE lower(_)
lower(node) ==
    CASE node[1] = "Name" -> Name(LowerName(node[2]))
      [] node[1] = "Constant" ->
            CASE node[2].t = "bool" ->
                    Name(IF node[2].v = 1 THEN "true" ELSE "false")
              [] node[2].t = "none" -> Name("none")
              [] node[2].t = "str" -> Const(VStr(StrLowerIdx[node[2].v]))
              [] OTHER -> node
      [] node[1] = "Compare" ->
            <<"Compare", lower(node[2]), node[3],
              [i \in DOMAIN node[4] |-> lower(node[4][i])]>>
      [] node[1] = "BoolOp" ->
            <<"BoolOp", node[2], [i \in DOMAIN node[3] |-> lower(node[3][i])]>>
      [] OTHER -> node

\* executor._normalize: expr.replace("null", "None")
RECURSIVE _normalize(_)
_normalize(node) ==
    CASE node[1] = "Name" -> IF node[2] = "null" THEN Name("None") ELSE node
      [] node[1] = "Compare" ->
            <<"Compare", _normalize(node[2]), node[3],
              [i \in DOMAIN node[4] |-> _normalize(node[4][i])]>>
      [] node[1] = "BoolOp" ->
            <<"BoolOp", node[2],
              [i \in DOMAIN node[3] |-> _normalize(node[3][i])]>>
      [] OTHER -> node

\* one comparison of a Compare chain
CompareOp(op, left, right) ==
    CASE op = "Eq" -> VBool(PyEq(left, right))
      [] op = "NotEq" -> VBool(~PyEq(left, right))
      [] op = "Lt" -> PyLt(left, right)
      [] op = "Gt" -> PyLt(right, left)
      [] op = "LtE" ->
            IF PyLt(left, right) = Raise THEN Raise
            ELSE VBool(Truthy(PyLt(left, right)) \/ PyEq(left, right))
      [] op = "GtE" ->
            IF PyLt(right, left) = Raise THEN Raise
            ELSE VBool(Truthy(PyLt(right, left)) \/ PyEq(left, right))
      [] OTHER -> Raise

\* out = out and v  /  out = out or v  over the evaluated operands
RECURSIVE FoldBool(_, _, _)
FoldBool(op, out, values) ==
    IF values = <<>> THEN out
    ELSE LET v == Head(values)
             nxt == IF op = "And"
                    THEN (IF Truthy(out) THEN v ELSE out)
                    ELSE (IF Truthy(out) THEN out ELSE v)
         IN FoldBool(op, nxt, Tail(values))

RECURSIVE _eval(_, _)
RECURSIVE CompareChain(_, _, _, _)
CompareChain(left, ops, comparators, context) ==
    IF ops = <<>> THEN VBool(TRUE)
    ELSE LET right == _eval(Head(comparators), context)
             ok == IF right = Raise THEN Raise
                   ELSE CompareOp(Head(ops), left, right)
         IN IF ok = Raise THEN Raise
            ELSE IF ~Truthy(ok) THEN VBool(FALSE)
            ELSE CompareChain(right, Tail(ops), Tail(comparators), context)

_eval(node, context) ==
    CASE node[1] = "BoolOp" ->
            LET values == [i \in DOMAIN node[3] |-> _eval(node[3][i], context)]
            IN IF \E i \in DOMAIN values : values[i] = Raise THEN Raise
               ELSE FoldBool(node[2], VBool(node[2] = "And"), values)
      [] node[1] = "Compare" ->
            LET left == _eval(node[2], context)
            IN IF left = Raise THEN Raise
               ELSE CompareChain(left, node[3], node[4], context)
      [] node[1] = "Name" ->
            IF node[2] \in DOMAIN context THEN context[node[2]] ELSE Raise
      [] node[1] = "Constant" -> node[2]
      [] OTHER -> Raise

_safe_eval(expression, context) ==
    IF expression[1] = "SyntaxError" THEN Raise ELSE _eval(expression, context)

\* an evaluation that takes an exception of _safe_eval for True
evaluate_condition_RaiseIsTrue(expression, context) ==
    LET e == lower(expression)
    IN IF e = <<"Empty">> \/ e = Name("true") THEN TRUE
       ELSE LET r == _safe_eval(e, context)
            IN IF r = Raise THEN TRUE ELSE Truthy(r)

evaluate_condition(expression, context) ==
    LET e == lower(expression)
    IN IF e = <<"Empty">> \/ e = Name("true") THEN TRUE
       ELSE LET r == _safe_eval(e, context)
            IN IF r = Raise THEN FALSE ELSE Truthy(r)

(***************************************************************************)
(* Workflow records (models.py).                                           *)
(***************************************************************************)
Edge(src, dest, when) == [src |-> src, dest |-> dest, when |-> when]
Node(id, tests) == [id |-> id, tests |-> tests]

Range(s) == {s[i] : i \in DOMAIN s}

\* the sequences over S of length at most n
SeqsUpTo(S, n) == UNION {[1..k -> S] : k \in 0..n}
NonEmptySeqs(S, n) == SeqsUpTo(S, n) \ {<<>>}

EmptyCtx == [n \in {} |-> VNone]

(***************************************************************************)
(* Results of the meta-agent.  A task result is None or a dict; `kind`     *)
(* tells which collaborator built the dict.  An error is a triple          *)
(* <<text, collaborator, task id>>.                                        *)
(***************************************************************************)
NullResult == [null |-> TRUE, kind |-> "none", data |-> EmptyCtx]
DictResult(kind, data) == [null |-> FALSE, kind |-> kind, data |-> data]

NoError == <<"none", "", 0>>
AllAlternativesFailed == <<"All choice alternatives failed", "", 0>>
SubTaskFailed(id) == <<"Sub-task failed", "", id>>
ExceptionMessage(who, id) == <<"exception", who, id>>

\* the dict solve returns: result, verified, error (execution_tree is task)
RetOf(t, result, verified, error) ==
    [task |-> t, result |-> result, verified |-> verified, error |-> error]
NoRet == RetOf(0, NullResult, FALSE, NoError)

(***************************************************************************)
(* State.                                                                  *)
(*   compiler:  raw         the parsed YAML data handed to load_workflow   *)
(*              loadResult  what load_workflow did with it                 *)
(*   executor:  wf, context, executed, ready are run_workflow's locals;    *)
(*              wpc is its position, werr the AssertionError or exception  *)
(*              that ended it, wout the mapping it returned.  execOrder,   *)
(*              guardTrue and guardFalse record what the run did: the ids  *)
(*              in execution order and the edges (by index) whose guard    *)
(*              was evaluated true / false.  dequeues counts the           *)
(*              ready.pop(0) calls of the loop.                            *)
(*   meta-agent: tasks      the Task objects, a task's id is its index     *)
(*              heap        the inputs dicts; a Task holds a reference, so *)
(*                          that two tasks can share one dict              *)
(*              stack       the call stack of solve, innermost call last   *)
(*              ret         the value the last finished solve returned     *)
(*              events      the calls made so far: solve entries,          *)
(*                          collaborator calls, raises and returns         *)
(*              max_depth   the max_depth handed to MetaAgent's            *)
(*                          constructor, which keeps it in no attribute    *)
(*              execution_log  the agent's log, an entry being named by    *)
(*                          the fixed words of its message                 *)
(*              logs        the content of the 'logs' entry of the dict    *)
(*                          the last finished solve returned, at the       *)
(*                          moment of that return                          *)
(*   guards:    gexpr, gctx the expression and the context dict handed to  *)
(*                          a guard evaluator; gpc is "call" before the    *)
(*                          call and names the evaluator after it; gres is *)
(*                          the boolean returned, gcalls the number of     *)
(*                          calls the evaluation executed                  *)
(*   calls:     callee, arguments, returned  an application of a function  *)
(*                          that depends on its arguments only: the        *)
(*                          function applied                               *)
(*                          ("idle": none), its arguments and what it      *)
(*                          returned                                       *)
(***************************************************************************)
VARIABLES raw, loadResult,
          wf, context, executed, ready, wpc, werr, wout,
          execOrder, guardTrue, guardFalse, dequeues,
          tasks, heap, stack, ret, events, max_depth, execution_log, logs,
          gexpr, gctx, gpc, gres, gcalls,
          callee, arguments, returned

loadVars == <<raw, loadResult>>
runVars == <<wf, context, executed, ready, wpc, werr, wout,
             execOrder, guardTrue, guardFalse, dequeues>>
solveVars == <<tasks, heap, stack, ret, events, max_depth, execution_log, logs>>
guardVars == <<gexpr, gctx, gpc, gres, gcalls>>
callVars == <<callee, arguments, returned>>
vars == <<loadVars, runVars, solveVars, guardVars, callVars>>

(***************************************************************************)
(* compiler.py                                                             *)
(***************************************************************************)
NodeIds(workflow) == {workflow.nodes[i].id : i \in DOMAIN workflow.nodes}

\* the keys of {node.id: ... for node in workflow.nodes} in insertion order
RECURSIVE DictKeys(_, _)
DictKeys(nodes, seen) ==
    IF nodes = <<>> THEN <<>>
    ELSE IF Head(nodes).id \in seen THEN DictKeys(Tail(nodes), seen)
    ELSE <<Head(nodes).id>> \o DictKeys(Tail(nodes), seen \cup {Head(nodes).id})

\* FirstUnknownEdge reporting the last offending edge instead of the first
FirstUnknownEdge_Last(workflow) ==
    LET ids == NodeIds(workflow)
        bad == {i \in DOMAIN workflow.edges :
                    workflow.edges[i].src \notin ids
                 \/ workflow.edges[i].dest \notin ids}
    IN IF bad = {} THEN 0 ELSE CHOOSE i \in bad : \A j \in bad : i >= j

\* the first loop of _validate_workflow: the index of the first edge that
\* references an unknown node, 0 when there is none
FirstUnknownEdge(workflow) ==
    LET ids == NodeIds(workflow)
        bad == {i \in DOMAIN workflow.edges :
                    workflow.edges[i].src \notin ids
                 \/ workflow.edges[i].dest \notin ids}
    IN IF bad = {} THEN 0 ELSE CHOOSE i \in bad : \A j \in bad : i <= j

InitialIndegree(workflow) ==
    [id \in NodeIds(workflow) |->
        Cardinality({i \in DOMAIN workflow.edges : workflow.edges[i].dest = id})]

RECURSIVE AdjacencyOf(_, _)
AdjacencyOf(edges, id) ==
    IF edges = <<>> THEN <<>>
    ELSE (IF Head(edges).src = id THEN <<Head(edges).dest>> ELSE <<>>)
         \o AdjacencyOf(Tail(edges), id)

\* for neighbor in adjacency[current]: indegree[neighbor] -= 1; ...
RECURSIVE KahnRelax(_, _, _)
KahnRelax(neighbors, indegree, queue) ==
    IF neighbors = <<>> THEN [indegree |-> indegree, queue |-> queue]
    ELSE LET n == Head(neighbors)
             d == indegree[n] - 1
         IN KahnRelax(Tail(neighbors), [indegree EXCEPT ![n] = d],
                      IF d = 0 THEN Append(queue, n) ELSE queue)

\* while queue: ...; returns visited
RECURSIVE KahnLoop(_, _, _, _)
KahnLoop(workflow, queue, indegree, visited) ==
    IF queue = <<>> THEN visited
    ELSE LET current == Head(queue)
             r == KahnRelax(AdjacencyOf(workflow.edges, current), indegree,
                            Tail(queue))
         IN KahnLoop(workflow, r.queue, r.indegree, visited + 1)

\* KahnVisited with a queue seeded by every node, whatever its in-degree
KahnVisited_AllSeeded(workflow) ==
    KahnLoop(workflow, DictKeys(workflow.nodes, {}),
             [id \in NodeIds(workflow) |-> Len(workflow.edges) + 1], 0)

KahnVisited(workflow) ==
    LET indegree == InitialIndegree(workflow)
        queue == SelectSeq(DictKeys(workflow.nodes, {}),
                           LAMBDA id : indegree[id] = 0)
    IN KahnLoop(workflow, queue, indegree, 0)

Ok == <<"ok">>
UnknownNodeError(edge) == <<"Edge references unknown node", edge.src, edge.dest>>
CycleError == <<"Cycle detected in Workflow DAG.">>

_validate_workflow(workflow) ==
    IF FirstUnknownEdge(workflow) # 0
    THEN UnknownNodeError(workflow.edges[FirstUnknownEdge(workflow)])
    ELSE IF KahnVisited(workflow) # Len(workflow.nodes) THEN CycleError
    ELSE Ok

\* load_workflow on parsed data that has the required top-level fields: the
\* Workflow is built field by field and then validated
BuildWorkflow(data) ==
    [nodes |-> data.nodes,
     edges |-> data.edges,
     preconditions |-> data.preconditions,
     success_criteria |-> data.success_criteria,
     failure_conditions |-> data.failure_conditions,
     outputs |-> data.outputs]

load_workflow(data) ==
    LET workflow == BuildWorkflow(data)
        v == _validate_workflow(workflow)
    IN IF v = Ok THEN [status |-> "returned", workflow |-> workflow, error |-> Ok]
       ELSE [status |-> "raised", workflow |-> workflow, error |-> v]

(***************************************************************************)
(* SpecLoad: load_workflow on every specification of at most MaxLoadNodes  *)
(* nodes with ids a, b (ids may repeat) and at most MaxLoadEdges edges     *)
(* between a, b and the undeclared id z.                                   *)
(***************************************************************************)
TrueGuard == Name("true")
LoadNodeIds == {"a", "b"}
LoadEdgeIds == {"a", "b", "z"}

RawSpecs ==
    {[nodes |-> ns, edges |-> es, preconditions |-> <<>>,
      success_criteria |-> <<>>, failure_conditions |-> <<>>, outputs |-> <<>>] :
        ns \in SeqsUpTo({Node(id, <<>>) : id \in LoadNodeIds}, MaxLoadNodes),
        es \in SeqsUpTo({Edge(s, d, TrueGuard) : s \in LoadEdgeIds, d \in LoadEdgeIds},
                        MaxLoadEdges)}

NoWorkflow ==
    [nodes |-> <<>>, edges |-> <<>>, preconditions |-> <<>>,
     success_criteria |-> <<>>, failure_conditions |-> <<>>, outputs |-> <<>>]
NotLoaded == [status |-> "none", workflow |-> NoWorkflow, error |-> Ok]

RunIdle ==
    /\ wf = NoWorkflow
    /\ context = EmptyCtx
    /\ executed = {}
    /\ ready = <<>>
    /\ wpc = "idle"
    /\ werr = Ok
    /\ wout = EmptyCtx
    /\ execOrder = <<>>
    /\ dequeues = 0
    /\ guardTrue = {}
    /\ guardFalse = {}

\* meta_agent.py:69: def __init__(..., max_depth: int = 5)
DefaultMaxDepth == 5

SolveIdle ==
    /\ tasks = <<>>
    /\ heap = <<>>
    /\ stack = <<>>
    /\ ret = NoRet
    /\ events = <<>>
    /\ execution_log = <<>>
    /\ logs = <<>>
    /\ max_depth = DefaultMaxDepth

GuardIdle ==
    /\ gexpr = <<"Empty">>
    /\ gctx = EmptyCtx
    /\ gpc = "idle"
    /\ gres = FALSE
    /\ gcalls = 0

\* no pure function is being applied
NoCall == [none |-> TRUE]
CallIdle ==
    /\ callee = "idle"
    /\ arguments = NoCall
    /\ returned = NoCall

InitLoad ==
    /\ raw \in RawSpecs
    /\ loadResult = NotLoaded
    /\ RunIdle
    /\ SolveIdle
    /\ GuardIdle
    /\ CallIdle

Load ==
    /\ loadResult.status = "none"
    /\ loadResult' = load_workflow(raw)
    /\ UNCHANGED <<raw, runVars, solveVars, guardVars, callVars>>

NextLoad == Load

SpecLoad == InitLoad /\ [][NextLoad]_vars

(***************************************************************************)
(* executor.py                                                             *)
(***************************************************************************)
\* an _indegree that counts no edge: every node is seeded as a root
_indegree_Zero(workflow, node_id) == 0

_indegree(workflow, node_id) ==
    Cardinality({i \in DOMAIN workflow.edges : workflow.edges[i].dest = node_id})

\* indices of the edges of out_edges[node_id] / in_edges[node_id], in order
OutEdges(workflow, node_id) ==
    SelectSeq([i \in DOMAIN workflow.edges |-> i],
              LAMBDA i : workflow.edges[i].src = node_id)
InEdges(workflow, node_id) ==
    SelectSeq([i \in DOMAIN workflow.edges |-> i],
              LAMBDA i : workflow.edges[i].dest = node_id)

\* next(n for n in workflow.nodes if n.id == dest)
NodeById(workflow, id) ==
    workflow.nodes[CHOOSE i \in DOMAIN workflow.nodes :
                      /\ workflow.nodes[i].id = id
                      /\ \A j \in DOMAIN workflow.nodes :
                            workflow.nodes[j].id = id => i <= j]

\* FirstFailing that looks at the first expression only
FirstFailing_HeadOnly(exprs, ctx, wanted, normalise) ==
    IF exprs # <<>>
       /\ evaluate_condition(IF normalise THEN _normalize(exprs[1]) ELSE exprs[1],
                             ctx) # wanted
    THEN 1 ELSE 0

\* index of the first expression of exprs that does not evaluate as wanted,
\* 0 when there is none
FirstFailing(exprs, ctx, wanted, normalise) ==
    LET bad == {i \in DOMAIN exprs :
                  evaluate_condition(IF normalise THEN _normalize(exprs[i])
                                     ELSE exprs[i], ctx) # wanted}
    IN IF bad = {} THEN 0 ELSE CHOOSE i \in bad : \A j \in bad : i <= j

\* PredecessorsExecuted without the readiness test
PredecessorsExecuted_Any(workflow, dest, done) == TRUE

\* all(pred.src in executed for pred in in_edges.get(dest_node.id, []))
PredecessorsExecuted(workflow, dest, done) ==
    \A k \in Range(InEdges(workflow, dest)) : workflow.edges[k].src \in done

\* the successor loop: the nodes appended to ready, in order
RECURSIVE Successors(_, _, _, _)
Successors(workflow, out, ctx, done) ==
    IF out = <<>> THEN <<>>
    ELSE LET edge == workflow.edges[Head(out)]
         IN (IF /\ evaluate_condition(_normalize(edge.when), ctx)
                /\ PredecessorsExecuted(workflow, edge.dest, done)
             THEN <<NodeById(workflow, edge.dest)>> ELSE <<>>)
            \o Successors(workflow, Tail(out), ctx, done)

StartTs == VInt(0)

SeedContext(inputs) ==
    inputs @@ [n \in {"__start_ts", "none", "true", "false"} |->
                   CASE n = "__start_ts" -> StartTs
                     [] n = "none" -> VNone
                     [] n = "true" -> VBool(TRUE)
                     [] n = "false" -> VBool(FALSE)]

\* the inputs a caller passes and the mappings an agent produces
InputSet == {EmptyCtx, [n \in {"x"} |-> VInt(1)]}
ProducedSet == {[n \in {"r"} |-> VInt(v)] : v \in {0, 1}}

\* run_workflow_start that seeds the queue with the first root only
run_workflow_start_FirstRoot(inputs) ==
    /\ wpc = "start"
    /\ context' = SeedContext(inputs)
    /\ executed' = {}
    /\ ready' = SubSeq(SelectSeq(wf.nodes, LAMBDA n : _indegree(wf, n.id) = 0), 1, 1)
    /\ LET f == FirstFailing(wf.preconditions, SeedContext(inputs), TRUE, FALSE)
       IN IF f # 0
          THEN /\ wpc' = "aborted"
               /\ werr' = <<"Precondition failed", wf.preconditions[f]>>
          ELSE /\ wpc' = "loop"
               /\ werr' = werr
    /\ UNCHANGED <<wf, dequeues, wout, execOrder, guardTrue, guardFalse, loadVars, solveVars, guardVars, callVars>>

\* lines 8-30: seed context, initial ready list, preconditions
run_workflow_start(inputs) ==
    /\ wpc = "start"
    /\ context' = SeedContext(inputs)
    /\ executed' = {}
    /\ ready' = SelectSeq(wf.nodes, LAMBDA n : _indegree(wf, n.id) = 0)
    /\ LET f == FirstFailing(wf.preconditions, SeedContext(inputs), TRUE, FALSE)
       IN IF f # 0
          THEN /\ wpc' = "aborted"
               /\ werr' = <<"Precondition failed", wf.preconditions[f]>>
          ELSE /\ wpc' = "loop"
               /\ werr' = werr
    /\ UNCHANGED <<wf, dequeues, wout, execOrder, guardTrue, guardFalse, loadVars, solveVars, guardVars, callVars>>

\* a loop without the test of lines 34-35: the dequeued node runs again
run_workflow_skip_Execute ==
    /\ wpc = "loop"
    /\ ready # <<>>
    /\ Head(ready).id \in executed
    /\ dequeues' = dequeues + 1
    /\ ready' = Tail(ready)
    /\ execOrder' = Append(execOrder, Head(ready).id)
    /\ UNCHANGED <<wf, context, executed, wpc, werr, wout,
                   guardTrue, guardFalse, loadVars, solveVars, guardVars, callVars>>

\* lines 33-35: a node that is already executed is dropped
run_workflow_skip ==
    /\ wpc = "loop"
    /\ ready # <<>>
    /\ Head(ready).id \in executed
    /\ dequeues' = dequeues + 1
    /\ ready' = Tail(ready)
    /\ UNCHANGED <<wf, context, executed, wpc, werr, wout,
                   execOrder, guardTrue, guardFalse, loadVars, solveVars, guardVars, callVars>>

\* lines 37-38: make_agent or the agent raises
run_workflow_agent_raises ==
    /\ wpc = "loop"
    /\ ready # <<>>
    /\ Head(ready).id \notin executed
    /\ dequeues' = dequeues + 1
    /\ ready' = Tail(ready)
    /\ wpc' = "aborted"
    /\ werr' = <<"agent raised", Head(ready).id>>
    /\ UNCHANGED <<wf, context, executed, wout,
                   execOrder, guardTrue, guardFalse, loadVars, solveVars, guardVars, callVars>>

\* run_workflow_node that takes the node from the back of the queue
run_workflow_node_Lifo(produced) ==
    /\ wpc = "loop"
    /\ ready # <<>>
    /\ ready[Len(ready)].id \notin executed
    /\ dequeues' = dequeues + 1
    /\ LET node == ready[Len(ready)]
           ctx == produced @@ context
           f == FirstFailing(node.tests, ctx, TRUE, TRUE)
           done == executed \cup {node.id}
           out == OutEdges(wf, node.id)
       IN /\ context' = ctx
          /\ IF f # 0
             THEN /\ wpc' = "aborted"
                  /\ werr' = <<"Test failed for node", node.id, node.tests[f]>>
                  /\ ready' = SubSeq(ready, 1, Len(ready) - 1)
                  /\ UNCHANGED <<executed, execOrder, guardTrue, guardFalse>>
             ELSE /\ executed' = done
                  /\ execOrder' = Append(execOrder, node.id)
                  /\ guardTrue' = guardTrue \cup
                        {k \in Range(out) :
                            evaluate_condition(_normalize(wf.edges[k].when), ctx)}
                  /\ guardFalse' = guardFalse \cup
                        {k \in Range(out) :
                            ~evaluate_condition(_normalize(wf.edges[k].when), ctx)}
                  /\ ready' = SubSeq(ready, 1, Len(ready) - 1) \o Successors(wf, out, ctx, done)
                  /\ UNCHANGED <<wpc, werr>>
    /\ UNCHANGED <<wf, wout, loadVars, solveVars, guardVars, callVars>>

\* lines 33-51: one iteration of the loop that executes a node
run_workflow_node(produced) ==
    /\ wpc = "loop"
    /\ ready # <<>>
    /\ Head(ready).id \notin executed
    /\ dequeues' = dequeues + 1
    /\ LET node == Head(ready)
           ctx == produced @@ context
           f == FirstFailing(node.tests, ctx, TRUE, TRUE)
           done == executed \cup {node.id}
           out == OutEdges(wf, node.id)
       IN /\ context' = ctx
          /\ IF f # 0
             THEN /\ wpc' = "aborted"
                  /\ werr' = <<"Test failed for node", node.id, node.tests[f]>>
                  /\ ready' = Tail(ready)
                  /\ UNCHANGED <<executed, execOrder, guardTrue, guardFalse>>
             ELSE /\ executed' = done
                  /\ execOrder' = Append(execOrder, node.id)
                  /\ guardTrue' = guardTrue \cup
                        {k \in Range(out) :
                            evaluate_condition(_normalize(wf.edges[k].when), ctx)}
                  /\ guardFalse' = guardFalse \cup
                        {k \in Range(out) :
                            ~evaluate_condition(_normalize(wf.edges[k].when), ctx)}
                  /\ ready' = Tail(ready) \o Successors(wf, out, ctx, done)
                  /\ UNCHANGED <<wpc, werr>>
    /\ UNCHANGED <<wf, wout, loadVars, solveVars, guardVars, callVars>>

\* lines 53-61: the queue has drained
run_workflow_finish ==
    /\ wpc = "loop"
    /\ ready = <<>>
    /\ LET s == FirstFailing(wf.success_criteria, context, TRUE, FALSE)
           f == FirstFailing(wf.failure_conditions, context, FALSE, FALSE)
       IN IF s # 0
          THEN /\ wpc' = "aborted"
               /\ werr' = <<"Success criteria failed", wf.success_criteria[s]>>
               /\ wout' = wout
          ELSE IF f # 0
          THEN /\ wpc' = "aborted"
               /\ werr' = <<"Failure condition met", wf.failure_conditions[f]>>
               /\ wout' = wout
          ELSE /\ wpc' = "returned"
               /\ werr' = werr
               /\ wout' = [k \in Range(wf.outputs) |->
                              IF k \in DOMAIN context THEN context[k] ELSE VNone]
    /\ UNCHANGED <<wf, dequeues, context, executed, ready,
                   execOrder, guardTrue, guardFalse, loadVars, solveVars, guardVars, callVars>>

(***************************************************************************)
(* SpecRun: run_workflow on every workflow load_workflow returns for the   *)
(* specifications with the first n of the nodes a, b, c and at most        *)
(* MaxEdges edges between them.                                            *)
(***************************************************************************)
NodeNames == <<"a", "b", "c">>
RIsOne == Cmp(Name("r"), "Eq", Const(VInt(1)))
RIsZero == Cmp(Name("r"), "Eq", Const(VInt(0)))
WhenSet == {TrueGuard, RIsOne}

\* the (success_criteria, failure_conditions) pairs of the model
CriteriaSet ==
    {<<<<TrueGuard, RIsOne>>, <<>>>>,
     <<<<>>, <<RIsZero>>>>,
     <<<<RIsOne>>, <<RIsOne>>>>}

NodesOf(n) == [i \in 1..n |-> Node(NodeNames[i], <<>>)]

ShapeEdges(shape, whens) ==
    [i \in DOMAIN shape |->
        Edge(NodeNames[shape[i][1]], NodeNames[shape[i][2]], whens[i])]

AllTrue(shape) == [i \in DOMAIN shape |-> TrueGuard]

\* the edge lists (as index pairs) of at most MaxEdges edges over the first n
\* nodes that _validate_workflow accepts
ValidShapes(n) ==
    {sh \in SeqsUpTo((1..n) \X (1..n), MaxEdges) :
        _validate_workflow([nodes |-> NodesOf(n),
                            edges |-> ShapeEdges(sh, AllTrue(sh))]) = Ok}

RunSpecOf(n, sh, whens, c) ==
    [nodes |-> NodesOf(n),
     edges |-> ShapeEdges(sh, whens),
     preconditions |-> <<>>,
     success_criteria |-> c[1],
     failure_conditions |-> c[2],
     outputs |-> <<"r">>]

InitRun ==
    /\ \E n \in 1..Len(NodeNames) : \E sh \in ValidShapes(n) :
          \E whens \in [DOMAIN sh -> WhenSet] : \E c \in CriteriaSet :
             raw = RunSpecOf(n, sh, whens, c)
    /\ loadResult = load_workflow(raw)
    /\ loadResult.status = "returned"
    /\ wf = loadResult.workflow
    /\ context = EmptyCtx
    /\ executed = {}
    /\ ready = <<>>
    /\ wpc = "start"
    /\ werr = Ok
    /\ wout = EmptyCtx
    /\ execOrder = <<>>
    /\ dequeues = 0
    /\ guardTrue = {}
    /\ guardFalse = {}
    /\ SolveIdle
    /\ GuardIdle
    /\ CallIdle

NextRun ==
    \/ \E inputs \in InputSet : run_workflow_start(inputs)
    \/ run_workflow_skip
    \/ run_workflow_agent_raises
    \/ \E produced \in ProducedSet : run_workflow_node(produced)
    \/ run_workflow_finish

SpecRun == InitRun /\ [][NextRun]_vars

(***************************************************************************)
(* SpecTerminate: run_workflow, called with empty inputs, on the accepted  *)
(* workflows of fewer than MaxEdges edges and without criteria.            *)
(* run_workflow is one thread of control that takes its next step as long  *)
(* as it has one, hence the weak fairness of the next-state relation.      *)
(***************************************************************************)
InitTerminate ==
    /\ InitRun
    /\ Len(raw.edges) < MaxEdges
    /\ raw.success_criteria = <<>>
    /\ raw.failure_conditions = <<RIsZero>>

NextTerminate ==
    \/ run_workflow_start(EmptyCtx)
    \/ run_workflow_skip
    \/ run_workflow_agent_raises
    \/ \E produced \in ProducedSet : run_workflow_node(produced)
    \/ run_workflow_finish

SpecTerminate == InitTerminate /\ [][NextTerminate]_vars /\ WF_vars(NextTerminate)

(***************************************************************************)
(* SpecCriteria: run_workflow on the workflows of SpecRun with fewer than  *)
(* MaxEdges edges, whose success criteria and failure conditions name x    *)
(* (bound only when the caller passes it), name r, or do not parse.        *)
(***************************************************************************)
NoParse == <<"SyntaxError">>
XIsTwo == Cmp(Name("x"), "Eq", Const(VInt(2)))

\* the (success_criteria, failure_conditions) pairs of SpecCriteria
EndCriteriaSet ==
    {<<<<XIsTwo>>, <<>>>>,
     <<<<TrueGuard, NoParse>>, <<>>>>,
     <<<<>>, <<XIsTwo>>>>,
     <<<<>>, <<NoParse, XIsTwo>>>>,
     <<<<RIsOne>>, <<XIsTwo, NoParse, RIsZero>>>>}

InitCriteria ==
    /\ \E n \in 1..Len(NodeNames) : \E sh \in ValidShapes(n) :
          \E c \in EndCriteriaSet :
             /\ Len(sh) < MaxEdges
             /\ raw = RunSpecOf(n, sh, AllTrue(sh), c)
    /\ loadResult = load_workflow(raw)
    /\ loadResult.status = "returned"
    /\ wf = loadResult.workflow
    /\ context = EmptyCtx
    /\ executed = {}
    /\ ready = <<>>
    /\ wpc = "start"
    /\ werr = Ok
    /\ wout = EmptyCtx
    /\ execOrder = <<>>
    /\ dequeues = 0
    /\ guardTrue = {}
    /\ guardFalse = {}
    /\ SolveIdle
    /\ GuardIdle
    /\ CallIdle

SpecCriteria == InitCriteria /\ [][NextRun]_vars

(***************************************************************************)
(* SpecChecks: run_workflow on workflows of at most three nodes and one    *)
(* edge (possibly declared twice) whose preconditions, node tests and      *)
(* declared outputs vary.                                                  *)
(***************************************************************************)
XIsOne == Cmp(Name("x"), "Eq", Const(VInt(1)))
XNotNone == Cmp(Name("x"), "NotEq", Name("None"))
RNotNull == Cmp(Name("r"), "NotEq", Name("null"))

PreconditionSet == {<<>>, <<XIsOne>>, <<TrueGuard, XIsOne>>, <<XNotNone, RIsOne>>}
TestsSet == {<<>>, <<RNotNull, RIsOne>>, <<RIsOne, RIsZero>>}
OutputsSet == {<<"r">>, <<"r", "y">>, <<"x", "none">>}

\* no edge, one edge, or the same edge declared twice
ChecksShapes(n) ==
    {sh \in SeqsUpTo((1..n) \X (1..n), 2) :
        \A i \in DOMAIN sh : sh[i][1] # sh[i][2] /\ sh[i] = sh[1]}

ChecksSpecOf(n, sh, whens, pre, tests, outs) ==
    [nodes |-> [i \in 1..n |-> Node(NodeNames[i], tests[i])],
     edges |-> ShapeEdges(sh, whens),
     preconditions |-> pre,
     success_criteria |-> <<>>,
     failure_conditions |-> <<>>,
     outputs |-> outs]

InitChecks ==
    /\ \E n \in 1..Len(NodeNames) : \E sh \in ChecksShapes(n) :
          \E whens \in [DOMAIN sh -> WhenSet] : \E pre \in PreconditionSet :
             \E tests \in [1..n -> TestsSet] : \E outs \in OutputsSet :
                raw = ChecksSpecOf(n, sh, whens, pre, tests, outs)
    /\ loadResult = load_workflow(raw)
    /\ loadResult.status = "returned"
    /\ wf = loadResult.workflow
    /\ context = EmptyCtx
    /\ executed = {}
    /\ ready = <<>>
    /\ wpc = "start"
    /\ werr = Ok
    /\ wout = EmptyCtx
    /\ execOrder = <<>>
    /\ dequeues = 0
    /\ guardTrue = {}
    /\ guardFalse = {}
    /\ SolveIdle
    /\ GuardIdle
    /\ CallIdle

SpecChecks == InitChecks /\ [][NextRun]_vars

(***************************************************************************)
(* SpecScenario: run_workflow on the workflows of the executor tests, with *)
(* ToolAgent nodes that call the tool test.double.                         *)
(***************************************************************************)
\* a tool node: io_inputs are the context keys handed to the tool
ToolNode(id, io_inputs) == [id |-> id, tests |-> <<>>, io_inputs |-> io_inputs]

\* a tool that hands back its first argument
tool_double_Identity(values) ==
    IF values = <<>> \/ Head(values).t # "int" THEN Raise
    ELSE [n \in {"result"} |-> VInt(Head(values).v)]

\* test.double: {"result": value * 2} of the first keyword argument; next()
\* on no argument raises
tool_double(values) ==
    IF values = <<>> \/ Head(values).t # "int" THEN Raise
    ELSE [n \in {"result"} |-> VInt(Head(values).v * 2)]

\* ToolAgent.execute: args = {k: context.get(k) for k in inputs if k in context}
ToolAgent_execute(node, ctx) ==
    LET keys == SelectSeq(node.io_inputs, LAMBDA k : k \in DOMAIN ctx)
    IN tool_double([i \in DOMAIN keys |-> ctx[keys[i]]])

ResultGt5 == Cmp(Name("result"), "Gt", Const(VInt(5)))
ResultNotNone == Cmp(Name("result"), "NotEq", Name("none"))
ScenarioCriteria == {<<ResultGt5>>, <<ResultNotNone>>}

\* test_run_workflow_success_criteria_check: one node
SingleStep(criteria) ==
    [nodes |-> <<ToolNode("process", <<"x">>)>>,
     edges |-> <<>>,
     preconditions |-> <<>>,
     success_criteria |-> criteria,
     failure_conditions |-> <<>>,
     outputs |-> <<"result">>]

\* test_run_workflow_with_multiple_steps: step1 -> step2, the edge declared
\* `times` times
MultiStep(criteria, times) ==
    [nodes |-> <<ToolNode("step1", <<"x">>), ToolNode("step2", <<"result">>)>>,
     edges |-> [i \in 1..times |-> Edge("step1", "step2", TrueGuard)],
     preconditions |-> <<>>,
     success_criteria |-> criteria,
     failure_conditions |-> <<>>,
     outputs |-> <<"result">>]

ScenarioA == MultiStep(<<ResultGt5>>, 1)

ScenarioSpecs ==
    {SingleStep(c) : c \in ScenarioCriteria}
    \cup {MultiStep(c, times) : c \in ScenarioCriteria, times \in 1..2}

\* the inputs of a run: none, or x = 0 .. MaxX
ScenarioInputs == {EmptyCtx} \cup {[n \in {"x"} |-> VInt(v)] : v \in 0..MaxX}

InitScenario ==
    /\ raw \in ScenarioSpecs
    /\ loadResult = load_workflow(raw)
    /\ loadResult.status = "returned"
    /\ wf = loadResult.workflow
    /\ context = EmptyCtx
    /\ executed = {}
    /\ ready = <<>>
    /\ wpc = "start"
    /\ werr = Ok
    /\ wout = EmptyCtx
    /\ execOrder = <<>>
    /\ dequeues = 0
    /\ guardTrue = {}
    /\ guardFalse = {}
    /\ SolveIdle
    /\ GuardIdle
    /\ CallIdle

\* lines 37-38 with a ToolAgent: the tool raises
tool_raises ==
    /\ ready # <<>>
    /\ ToolAgent_execute(Head(ready), context) = Raise
    /\ run_workflow_agent_raises

\* lines 33-51 with a ToolAgent: the tool returns a mapping
tool_node ==
    /\ ready # <<>>
    /\ ToolAgent_execute(Head(ready), context) # Raise
    /\ run_workflow_node(ToolAgent_execute(Head(ready), context))

NextScenario ==
    \/ \E inputs \in ScenarioInputs : run_workflow_start(inputs)
    \/ run_workflow_skip
    \/ tool_raises
    \/ tool_node
    \/ run_workflow_finish

SpecScenario == InitScenario /\ [][NextScenario]_vars

(***************************************************************************)
(* SpecGuard: a guard evaluator applied to one expression and one context. *)
(* The expressions are the atoms, the comparisons of two atoms, the chains *)
(* 1 == c <op> atom, and the and/or of at most MaxOperands of them; the    *)
(* empty text, a text that does not parse, True and `not x` are added.     *)
(***************************************************************************)
LenOf(id) == Call(Name("len"), <<Name(id)>>)
AppendTo(id) == Call(Attribute(Name(id), "append"), <<Const(VInt(1))>>)

GuardAtoms ==
    {Name("x"), Name("y"), Const(VInt(1)), Const(VInt(2)),
     Call(Name("f"), <<>>), LenOf("x"), AppendTo("x")}
GuardOps == {"Eq", "Lt", "In"}

\* the text of the expression begins with "len("
StartsWithLen(e) ==
    \/ e[1] = "Call" /\ e[2] = Name("len")
    \/ e[1] = "Compare" /\ e[2][1] = "Call" /\ e[2][2] = Name("len")

SingleCompares == {Cmp(l, op, r) : l \in GuardAtoms, op \in GuardOps, r \in GuardAtoms}
ChainCompares ==
    {<<"Compare", Const(VInt(1)), <<"Eq", op>>, <<c, r>>>> :
        c \in {Const(VInt(1)), Const(VInt(2))}, op \in GuardOps, r \in GuardAtoms}

FirstOperands ==
    {e \in SingleCompares \cup ChainCompares : ~StartsWithLen(e)}
    \cup {Name("x"), Name("y")}
MoreOperands ==
    {Cmp(Const(VInt(1)), "Eq", Const(VInt(1))),
     Cmp(Name("y"), "Eq", Const(VInt(2))),
     Cmp(Name("x"), "Eq", Const(VInt(1))),
     Cmp(LenOf("x"), "Eq", Const(VInt(2))),
     Call(Name("f"), <<>>)}
BoolOps ==
    {BoolOp(op, <<a>> \o rest) :
        op \in {"And", "Or"}, a \in FirstOperands,
        rest \in NonEmptySeqs(MoreOperands, MaxOperands - 1)}

GuardExprs ==
    GuardAtoms \cup SingleCompares \cup ChainCompares \cup BoolOps
    \cup {<<"Empty">>, <<"SyntaxError">>, Const(VBool(TRUE)), Name("true"),
          UnaryNot(Name("x"))}

GuardCtxSet ==
    {EmptyCtx,
     [n \in {"x"} |-> VInt(1)],
     [n \in {"x", "true"} |-> VBool(TRUE)],
     [n \in {"x"} |-> VList(1)],
     [n \in {"x", "f"} |-> IF n = "x" THEN VList(2) ELSE VFn]}

(***************************************************************************)
(* loader.py: _eval_simple_condition.  The fallback hands the text to      *)
(* Python's eval with the context as locals and len as the only builtin;   *)
(* PyEval is Python's evaluation of the syntax tree.  A result carries the *)
(* value (or Raise), the context as the evaluation left it and the number  *)
(* of calls executed.  A function object of the context returns 1 when it  *)
(* is called; the builtin len is the function object with payload 1.       *)
(***************************************************************************)
PyRes(val, ctx, calls) == [val |-> val, ctx |-> ctx, calls |-> calls]
BuiltinLen == [t |-> "fn", v |-> 1]

\* one comparison as Python makes it: `in` is supported there
PyCompareOp(op, left, right) ==
    IF op = "In"
    THEN IF right.t = "list"
         THEN VBool(right.v > 0 /\ PyEq(left, VInt(1)))
         ELSE Raise
    ELSE CompareOp(op, left, right)

RECURSIVE PyEval(_, _, _)
RECURSIVE PyChain(_, _, _, _, _)
PyChain(left, ops, comparators, ctx, calls) ==
    IF ops = <<>> THEN PyRes(VBool(TRUE), ctx, calls)
    ELSE LET r == PyEval(Head(comparators), ctx, calls)
             ok == PyCompareOp(Head(ops), left, r.val)
         IN IF r.val = Raise THEN r
            ELSE IF ok = Raise THEN PyRes(Raise, r.ctx, r.calls)
            ELSE IF ~Truthy(ok) THEN PyRes(VBool(FALSE), r.ctx, r.calls)
            ELSE PyChain(r.val, Tail(ops), Tail(comparators), r.ctx, r.calls)

\* and/or: the operands are evaluated from the left until one decides
RECURSIVE PyBoolOp(_, _, _, _)
PyBoolOp(op, values, ctx, calls) ==
    LET r == PyEval(Head(values), ctx, calls)
    IN IF r.val = Raise \/ Tail(values) = <<>> THEN r
       ELSE IF op = "And" /\ ~Truthy(r.val) THEN r
       ELSE IF op = "Or" /\ Truthy(r.val) THEN r
       ELSE PyBoolOp(op, Tail(values), r.ctx, r.calls)

\* f(args) for a name f, and x.append(arg) for a list x of the context
PyCall(func, args, ctx, calls) ==
    IF func[1] = "Name"
    THEN LET f == PyEval(func, ctx, calls)
             a == IF args = <<>> THEN PyRes(VNone, ctx, calls)
                  ELSE PyEval(args[1], ctx, calls)
         IN IF f.val = Raise THEN f
            ELSE IF a.val = Raise THEN a
            ELSE IF f.val = BuiltinLen
            THEN IF args # <<>> /\ a.val.t = "list"
                 THEN PyRes(VInt(a.val.v), a.ctx, a.calls + 1)
                 ELSE PyRes(Raise, a.ctx, a.calls + 1)
            ELSE IF f.val = VFn THEN PyRes(VInt(1), a.ctx, a.calls + 1)
            ELSE PyRes(Raise, a.ctx, a.calls)
    ELSE IF func[1] = "Attribute" /\ func[2][1] = "Name"
    THEN LET obj == PyEval(func[2], ctx, calls)
             a == PyEval(args[1], ctx, calls)
         IN IF obj.val = Raise THEN obj
            ELSE IF obj.val.t # "list" \/ func[3] # "append"
            THEN PyRes(Raise, ctx, calls)
            ELSE IF a.val = Raise THEN a
            ELSE PyRes(VNone,
                       [a.ctx EXCEPT ![func[2][2]] = VList(obj.val.v + 1)],
                       a.calls + 1)
    ELSE PyRes(Raise, ctx, calls)

PyEval(node, ctx, calls) ==
    CASE node[1] = "Name" ->
            IF node[2] \in DOMAIN ctx THEN PyRes(ctx[node[2]], ctx, calls)
            ELSE IF node[2] = "len" THEN PyRes(BuiltinLen, ctx, calls)
            ELSE PyRes(Raise, ctx, calls)
      [] node[1] = "Constant" -> PyRes(node[2], ctx, calls)
      [] node[1] = "UnaryNot" ->
            LET r == PyEval(node[2], ctx, calls)
            IN IF r.val = Raise THEN r
               ELSE PyRes(VBool(~Truthy(r.val)), r.ctx, r.calls)
      [] node[1] = "Compare" ->
            LET l == PyEval(node[2], ctx, calls)
            IN IF l.val = Raise THEN l
               ELSE PyChain(l.val, node[3], node[4], l.ctx, l.calls)
      [] node[1] = "BoolOp" -> PyBoolOp(node[2], node[3], ctx, calls)
      [] node[1] = "Call" -> PyCall(node[2], node[3], ctx, calls)
      [] OTHER -> PyRes(Raise, ctx, calls)

\* lines 28-75: the text starts with "len(".  Of such texts the model has
\* len(v) alone and len(v) <op> atom; the text is split at the first of
\* ==, >=, <=, >, < it contains and the right part is read with int()
LenPattern(cond, ctx) ==
    /\ cond[1] = "Compare"
    /\ cond[3][1] \in {"Eq", "GtE", "LtE", "Gt", "Lt"}
    /\ LET var == cond[2][3][1][2]
           right == cond[4][1]
       IN /\ var \in DOMAIN ctx
          /\ ctx[var].t = "list"
          /\ right[1] = "Constant"
          /\ right[2].t = "int"
          /\ Truthy(CompareOp(cond[3][1], VInt(ctx[var].v), right[2]))

_eval_simple_condition(cond, ctx) ==
    IF StartsWithLen(cond)
    THEN [value |-> LenPattern(cond, ctx), ctx |-> ctx, calls |-> 0]
    ELSE LET r == PyEval(cond, ctx, 0)
         IN [value |-> IF r.val = Raise THEN FALSE ELSE Truthy(r.val),
             ctx |-> r.ctx, calls |-> r.calls]

\* loader.py:128-132: YamlTaskDecomposer.decompose evaluates a guard
\* condition on a shallow copy of task.inputs (gctx), whose objects it shares
EvaluateSimple ==
    /\ gpc = "call"
    /\ LET r == _eval_simple_condition(gexpr, gctx)
       IN /\ gres' = r.value
          /\ gctx' = r.ctx
          /\ gcalls' = r.calls
    /\ gpc' = "_eval_simple_condition"
    /\ UNCHANGED <<gexpr, loadVars, runVars, solveVars, callVars>>

InitGuard ==
    /\ raw = NoWorkflow
    /\ loadResult = NotLoaded
    /\ RunIdle
    /\ SolveIdle
    /\ CallIdle
    /\ gexpr \in GuardExprs
    /\ gctx \in GuardCtxSet
    /\ gpc = "call"
    /\ gres = FALSE
    /\ gcalls = 0

\* guards.py:15-27; the function reads the context and calls nothing in it
Evaluate ==
    /\ gpc = "call"
    /\ gres' = evaluate_condition(gexpr, gctx)
    /\ gpc' = "evaluate_condition"
    /\ UNCHANGED <<gexpr, gctx, gcalls, loadVars, runVars, solveVars, callVars>>

NextGuard ==
    \/ Evaluate
    \/ EvaluateSimple

SpecGuard == InitGuard /\ [][NextGuard]_vars

(***************************************************************************)
(* meta_agent.py: Task, DecompositionResult and the frames of solve.       *)
(***************************************************************************)
\* what a Decomposer decides about one sub-task it creates: share = the Task
\* is given the parent's inputs dict itself, otherwise a dict of its own
Template(is_atomic, share, inputs, guard_conditions, outputs) ==
    [is_atomic |-> is_atomic, share |-> share, inputs |-> inputs,
     guard_conditions |-> guard_conditions, outputs |-> outputs]

\* Task(...): inputs is a reference into heap; alt is the index of the
\* alternative the task was created for (0: none)
Task(tpl, parent_id, alt, inputs) ==
    [is_atomic |-> tpl.is_atomic,
     inputs |-> inputs,
     guard_conditions |-> tpl.guard_conditions,
     outputs |-> tpl.outputs,
     parent_id |-> parent_id,
     alt |-> alt,
     status |-> "pending",
     result |-> NullResult,
     sub_tasks |-> <<>>]

DecompositionResult(sub_tasks, strategy, plan, alternatives) ==
    [sub_tasks |-> sub_tasks,
     decomposition_strategy |-> strategy,
     recombination_plan |-> plan,
     alternatives |-> alternatives]

NoDecomposition == DecompositionResult(<<>>, "none", "Direct", <<>>)

\* the locals of one call solve(task, depth)
Frame(t, depth) ==
    [task |-> t, depth |-> depth, pc |-> "solve",
     decomposition |-> NoDecomposition,
     alt |-> 0, i |-> 0, sub_results |-> <<>>, context |-> EmptyCtx]

Top == stack[Len(stack)]
Pop == SubSeq(stack, 1, Len(stack) - 1)
WithTop(f) == [stack EXCEPT ![Len(stack)] = f]
At(pc) == stack # <<>> /\ Top.pc = pc

\* the tasks a Decomposer creates from a list of templates; task base + j gets
\* heap cell base + j unless it shares its parent's dict
NewTasks(tpls, parent, alt, base) ==
    [j \in DOMAIN tpls |->
        Task(tpls[j], parent, alt,
             IF tpls[j].share THEN tasks[parent].inputs ELSE base + j)]
NewCells(tpls) == [j \in DOMAIN tpls |-> tpls[j].inputs]
NewIds(tpls, base) == [j \in DOMAIN tpls |-> base + j]

RECURSIVE Flatten(_)
Flatten(seqs) == IF seqs = <<>> THEN <<>> ELSE Head(seqs) \o Flatten(Tail(seqs))

RECURSIVE AltTasks(_, _, _, _)
AltTasks(altsT, parent, alt, base) ==
    IF altsT = <<>> THEN <<>>
    ELSE NewTasks(Head(altsT), parent, alt, base)
         \o AltTasks(Tail(altsT), parent, alt + 1, base + Len(Head(altsT)))

RECURSIVE AltIds(_, _)
AltIds(altsT, base) ==
    IF altsT = <<>> THEN <<>>
    ELSE <<NewIds(Head(altsT), base)>>
         \o AltIds(Tail(altsT), base + Len(Head(altsT)))

\* lines 207-213 (and 114-119): placeholders among the inputs are replaced by
\* values of the running context
ResolveInputs(inputs, ctx) ==
    [k \in DOMAIN inputs |->
        IF inputs[k].t = "str" /\ StrTable[inputs[k].v] \in DOMAIN ctx
        THEN ctx[StrTable[inputs[k].v]]
        ELSE IF inputs[k].t = "none" /\ k \in DOMAIN ctx THEN ctx[k]
        ELSE inputs[k]]

\* ShouldRun that wants every guard to hold
ShouldRun_AllGuards(guards, ctx) ==
    guards = <<>> \/ \A g \in DOMAIN guards : evaluate_condition(guards[g], ctx)

\* lines 215-228: no guard list, or at least one guard holds
ShouldRun(guards, ctx) ==
    guards = <<>> \/ \E g \in DOMAIN guards : evaluate_condition(guards[g], ctx)

\* MergeOutputs in which a key already in the context keeps its value
MergeOutputs_KeepEarlier(ctx, res, outputs_map) ==
    IF res.null THEN ctx
    ELSE LET mapped == [pk \in {k \in DOMAIN outputs_map :
                                   outputs_map[k] \in DOMAIN res.data} |->
                           res.data[outputs_map[pk]]]
         IN ctx @@ mapped @@ res.data

\* lines 233-242 (and 129-140): the declared output mapping, then the raw
\* keys of the result, are written into the context
MergeOutputs(ctx, res, outputs_map) ==
    IF res.null THEN ctx
    ELSE LET mapped == [pk \in {k \in DOMAIN outputs_map :
                                   outputs_map[k] \in DOMAIN res.data} |->
                           res.data[outputs_map[pk]]]
         IN res.data @@ mapped @@ ctx

\* combine raises: r['result'].get(...) on a result that is None
CombineRaises == [null |-> TRUE, kind |-> "raise", data |-> EmptyCtx]

\* ResultCombiner.combine, lines 703-726.  A plan text is named by the word
\* before its colon, so startswith("Chain") is equality with "Chain"; the
\* aggregate holds two lists as long as sub_results and the all_verified flag
combine(sub_results, recombination_plan) ==
    IF sub_results = <<>>
    THEN DictResult("error", [k \in {"error"} |-> VStr(3)])
    ELSE IF recombination_plan = "Chain"
    THEN sub_results[Len(sub_results)].result
    ELSE IF recombination_plan = "Merge"
    THEN IF \E j \in DOMAIN sub_results : sub_results[j].result.null
         THEN CombineRaises
         ELSE DictResult("aggregate",
                 [k \in {"combined_from", "outputs", "all_verified"} |->
                     IF k = "all_verified"
                     THEN VBool(\A j \in DOMAIN sub_results : sub_results[j].verified)
                     ELSE VList(Len(sub_results))])
    ELSE sub_results[1].result

(***************************************************************************)
(* What the collaborators may do.  The Decomposer picks templates, the     *)
(* Executor a result dict, the Verifier a verdict; each of them, and the   *)
(* Combiner, may raise instead.                                            *)
(***************************************************************************)
SubTemplates ==
    {Template(a, FALSE, EmptyCtx, g, EmptyCtx) :
        a \in BOOLEAN, g \in {<<>>, <<XIsOne, RIsOne>>}}
AltTemplates ==
    {Template(a, FALSE, EmptyCtx, <<>>, EmptyCtx) : a \in BOOLEAN}
PlanSet == {"Chain", "Merge"}
ExecSet == {[k \in {"r"} |-> VInt(v)] : v \in {0, 1}}
PrefilledSet == {[k \in {"r"} |-> VInt(1)]}
Verdicts == {"valid", "invalid", "raise"}
\* (strategy, pre-filled result) of a decomposition without sub-tasks
NoneSet ==
    {<<"none", EmptyCtx>>, <<"choice", EmptyCtx>>}
    \cup {<<"none", p>> : p \in PrefilledSet}
RootInputs == {EmptyCtx}


(***************************************************************************)
(* MetaAgent.solve, one action per collaborator call.                      *)
(***************************************************************************)
\* _log (lines 338-345): entries are appended to execution_log; an entry is
\* named by the fixed part of its message
\* a _log that keeps only the entries of the current step
Log_Overwrite(messages) == execution_log' = messages

Log(messages) == execution_log' = execution_log \o messages

\* solve returns val to its caller: the frame is popped
Return(val, evs) ==
    /\ stack' = Pop
    /\ ret' = val
    /\ logs' = execution_log'
    /\ events' = events \o evs
                 \o <<<<"return", val.task, IF val.verified THEN 1 ELSE 0>>>>

\* the collaborators, as numbered in the "raise" events
Collaborators == <<"decomposer", "executor", "verifier", "combiner">>
WhoCode(who) == CHOOSE c \in DOMAIN Collaborators : Collaborators[c] = who

\* Fail that leaves the task's status as it is
Fail_StatusKept(who, evs) ==
    /\ Return(RetOf(Top.task, NullResult, FALSE, ExceptionMessage(who, Top.task)),
              evs \o <<<<"raise", Top.task, WhoCode(who)>>>>)
    /\ UNCHANGED <<tasks, heap>>

\* the except clauses of lines 279-288 and 325-336: the collaborator `who`
\* raised in the call solve(Top.task)
Fail(who, evs) ==
    /\ tasks' = [tasks EXCEPT ![Top.task].status = "failed"]
    /\ Return(RetOf(Top.task, NullResult, FALSE, ExceptionMessage(who, Top.task)),
              evs \o <<<<"raise", Top.task, WhoCode(who)>>>>)
    /\ UNCHANGED heap

Entered == <<"solve", Top.task, Top.depth>>

\* lines 90-95, 292-295: an atomic task goes straight to execution
solve_atomic ==
    /\ At("solve")
    /\ tasks[Top.task].is_atomic
    /\ Log(<<"Solving task", "Task is atomic", "Executing atomic task">>)
    /\ tasks' = [tasks EXCEPT ![Top.task].status = "executing"]
    /\ stack' = WithTop([Top EXCEPT !.pc = "execute"])
    /\ events' = Append(events, Entered)
    /\ UNCHANGED <<heap, ret, logs>>
    /\ UNCHANGED <<loadVars, runVars, guardVars, callVars, max_depth>>

\* line 99: decompose raises
decompose_raises ==
    /\ At("solve")
    /\ ~tasks[Top.task].is_atomic
    /\ Log(<<"Solving task", "Error">>)
    /\ Fail("decomposer", <<Entered, <<"decompose", Top.task, NoDecomposition>>>>)
    /\ UNCHANGED <<loadVars, runVars, guardVars, callVars, max_depth>>

\* decompose_none that goes on to the Verifier whatever the task's result is
decompose_none_NoExecute(strategy, prefilled) ==
    /\ At("solve")
    /\ ~tasks[Top.task].is_atomic
    /\ Log(<<"Solving task", "Pre-filled result, verifying directly">>)
    /\ LET t == Top.task
           res == IF prefilled = EmptyCtx THEN tasks[t].result
                  ELSE DictResult("prefilled", prefilled)
           d == DecompositionResult(<<>>, strategy, "Direct", <<>>)
       IN /\ tasks' = [tasks EXCEPT ![t].result = res]
          /\ stack' = WithTop([Top EXCEPT !.decomposition = d,
                                          !.pc = "verify_prefilled"])
          /\ events' = events \o <<Entered, <<"decompose", t, d>>>>
    /\ UNCHANGED <<heap, ret, logs>>
    /\ UNCHANGED <<loadVars, runVars, guardVars, callVars, max_depth>>

\* lines 99, 173-190: no sub-tasks (strategy none, or choice without
\* alternatives); prefilled = the Decomposer has set task.result
decompose_none(strategy, prefilled) ==
    /\ At("solve")
    /\ ~tasks[Top.task].is_atomic
    /\ Log((<<"Solving task">>
            \o IF prefilled = EmptyCtx /\ tasks[Top.task].result.null
               THEN <<"No sub-tasks generated, executing as atomic",
                      "Executing atomic task">>
               ELSE <<"Pre-filled result, verifying directly">>))
    /\ LET t == Top.task
           res == IF prefilled = EmptyCtx THEN tasks[t].result
                  ELSE DictResult("prefilled", prefilled)
           d == DecompositionResult(<<>>, strategy, "Direct", <<>>)
       IN /\ tasks' = [tasks EXCEPT ![t].result = res,
                                    ![t].status = IF res.null THEN "executing" ELSE @]
          /\ stack' = WithTop([Top EXCEPT
                        !.decomposition = d,
                        !.pc = IF res.null THEN "execute" ELSE "verify_prefilled"])
          /\ events' = events \o <<Entered, <<"decompose", t, d>>>>
    /\ UNCHANGED <<heap, ret, logs>>
    /\ UNCHANGED <<loadVars, runVars, guardVars, callVars, max_depth>>

\* lines 99, 192-201: the Decomposer returns sub-tasks
decompose_sub_tasks(tpls, plan) ==
    /\ At("solve")
    /\ ~tasks[Top.task].is_atomic
    /\ Len(tasks) + Len(tpls) <= MaxTasks
    /\ Log(<<"Solving task", "Decomposed into sub-tasks", "Strategy">>)
    /\ LET t == Top.task
           base == Len(tasks)
           ids == NewIds(tpls, base)
           d == DecompositionResult(ids, "sequential", plan, <<>>)
       IN /\ tasks' = [tasks EXCEPT ![t].sub_tasks = ids]
                      \o NewTasks(tpls, t, 0, base)
          /\ heap' = heap \o NewCells(tpls)
          /\ stack' = WithTop([Top EXCEPT
                        !.decomposition = d,
                        !.pc = "sub_loop",
                        !.i = 1,
                        !.context = heap[tasks[t].inputs]])
          /\ events' = events \o <<Entered, <<"decompose", t, d>>>>
    /\ UNCHANGED <<ret, logs>>
    /\ UNCHANGED <<loadVars, runVars, guardVars, callVars, max_depth>>

\* lines 99-110: the Decomposer returns a choice among alternatives
decompose_choice(altsT, plan) ==
    /\ At("solve")
    /\ ~tasks[Top.task].is_atomic
    /\ Len(tasks) + Len(Flatten(altsT)) <= MaxTasks
    /\ Log(<<"Solving task", "Handling choice decomposition">>)
    /\ LET t == Top.task
           base == Len(tasks)
           d == DecompositionResult(<<>>, "choice", plan, AltIds(altsT, base))
       IN /\ tasks' = tasks \o AltTasks(altsT, t, 1, base)
          /\ heap' = heap \o NewCells(Flatten(altsT))
          /\ stack' = WithTop([Top EXCEPT
                        !.decomposition = d,
                        !.pc = "alt_loop",
                        !.alt = 1,
                        !.i = 1,
                        !.context = heap[tasks[t].inputs]])
          /\ events' = events \o <<Entered, <<"decompose", t, d>>>>
    /\ UNCHANGED <<ret, logs>>
    /\ UNCHANGED <<loadVars, runVars, guardVars, callVars, max_depth>>

\* line 299: Executor.execute returns a dict
execute_returns(result) ==
    /\ At("execute")
    /\ Log(<<>>)
    /\ tasks' = [tasks EXCEPT ![Top.task].result = DictResult("exec", result),
                              ![Top.task].status = "completed"]
    /\ stack' = WithTop([Top EXCEPT !.pc = "verify_atomic"])
    /\ events' = Append(events, <<"execute", Top.task, 0>>)
    /\ UNCHANGED <<heap, ret, logs>>
    /\ UNCHANGED <<loadVars, runVars, guardVars, callVars, max_depth>>

\* lines 299, 325-336: Executor.execute raises
execute_raises ==
    /\ At("execute")
    /\ Log(<<"Task failed">>)
    /\ Fail("executor", <<<<"execute", Top.task, 0>>>>)
    /\ UNCHANGED <<loadVars, runVars, guardVars, callVars, max_depth>>

\* verify_leaf that never marks the task verified
verify_leaf_Completed(verdict) ==
    /\ At("verify_atomic") \/ At("verify_prefilled")
    /\ Log((IF At("verify_atomic")
            THEN CASE verdict = "valid" -> <<"Task verified successfully">>
                   [] verdict = "invalid" -> <<"Task verification failed", "VERIF">>
                   [] OTHER -> <<"Task failed">>
            ELSE IF verdict = "raise" THEN <<"Error">> ELSE <<>>))
    /\ LET t == Top.task
           ev == <<<<"verify", t, 0>>>>
       IN IF verdict = "raise" THEN Fail("verifier", ev)
          ELSE /\ tasks' = [tasks EXCEPT ![t].status = "completed"]
               /\ Return(RetOf(t, tasks[t].result, verdict = "valid", NoError), ev)
               /\ UNCHANGED heap
    /\ UNCHANGED <<loadVars, runVars, guardVars, callVars, max_depth>>

\* lines 305-323 (atomic) and 179-187 (pre-filled result): the verdict on a
\* task that has a result
verify_leaf(verdict) ==
    /\ At("verify_atomic") \/ At("verify_prefilled")
    /\ Log((IF At("verify_atomic")
            THEN CASE verdict = "valid" -> <<"Task verified successfully">>
                   [] verdict = "invalid" -> <<"Task verification failed", "VERIF">>
                   [] OTHER -> <<"Task failed">>
            ELSE IF verdict = "raise" THEN <<"Error">> ELSE <<>>))
    /\ LET t == Top.task
           ev == <<<<"verify", t, 0>>>>
       IN IF verdict = "raise" THEN Fail("verifier", ev)
          ELSE /\ tasks' = [tasks EXCEPT ![t].status =
                               IF verdict = "valid" THEN "verified" ELSE "completed"]
               /\ Return(RetOf(t, tasks[t].result, verdict = "valid", NoError), ev)
               /\ UNCHANGED heap
    /\ UNCHANGED <<loadVars, runVars, guardVars, callVars, max_depth>>

\* lines 202-203 / 255-256: the loop over the sub-tasks is over
sub_loop_done ==
    /\ At("sub_loop")
    /\ Top.i > Len(Top.decomposition.sub_tasks)
    /\ Log(<<"Recombining sub-results">>)
    /\ stack' = WithTop([Top EXCEPT !.pc = "combine"])
    /\ UNCHANGED <<tasks, heap, ret, logs, events>>
    /\ UNCHANGED <<loadVars, runVars, guardVars, callVars, max_depth>>

\* lines 204-228: inputs resolved, every guard false: the sub-task is skipped
sub_skip ==
    /\ At("sub_loop")
    /\ Top.i <= Len(Top.decomposition.sub_tasks)
    /\ Log(<<"Solving sub-task", "Skipping sub-task">>)
    /\ LET st == Top.decomposition.sub_tasks[Top.i]
           ref == tasks[st].inputs
       IN /\ ~ShouldRun(tasks[st].guard_conditions, Top.context)
          /\ heap' = [heap EXCEPT ![ref] = ResolveInputs(@, Top.context)]
          /\ stack' = WithTop([Top EXCEPT !.i = @ + 1])
          /\ events' = Append(events, <<"skip", st, 0>>)
    /\ UNCHANGED <<tasks, ret, logs>>
    /\ UNCHANGED <<loadVars, runVars, guardVars, callVars, max_depth>>

\* sub_call that takes the sub-tasks from the last declared to the first
sub_call_LastFirst ==
    /\ At("sub_loop")
    /\ Top.i <= Len(Top.decomposition.sub_tasks)
    /\ Log(<<"Solving sub-task">>)
    /\ LET subs == Top.decomposition.sub_tasks
           st == subs[Len(subs) + 1 - Top.i]
           ref == tasks[st].inputs
       IN /\ ShouldRun(tasks[subs[Top.i]].guard_conditions, Top.context)
          /\ heap' = [heap EXCEPT ![ref] = ResolveInputs(@, Top.context)]
          /\ stack' = Append(WithTop([Top EXCEPT !.pc = "sub_wait"]),
                             Frame(st, Top.depth + 1))
    /\ UNCHANGED <<tasks, ret, logs, events>>
    /\ UNCHANGED <<loadVars, runVars, guardVars, callVars, max_depth>>

\* lines 204-230: inputs resolved, solve(sub_task, depth + 1) is called
sub_call ==
    /\ At("sub_loop")
    /\ Top.i <= Len(Top.decomposition.sub_tasks)
    /\ Log(<<"Solving sub-task">>)
    /\ LET st == Top.decomposition.sub_tasks[Top.i]
           ref == tasks[st].inputs
       IN /\ ShouldRun(tasks[st].guard_conditions, Top.context)
          /\ heap' = [heap EXCEPT ![ref] = ResolveInputs(@, Top.context)]
          /\ stack' = Append(WithTop([Top EXCEPT !.pc = "sub_wait"]),
                             Frame(st, Top.depth + 1))
    /\ UNCHANGED <<tasks, ret, logs, events>>
    /\ UNCHANGED <<loadVars, runVars, guardVars, callVars, max_depth>>

\* sub_return that forgets a failed sub-task and goes on with the next one
sub_return_DropFailed ==
    /\ At("sub_wait")
    /\ Log(<<>>)
    /\ LET st == Top.decomposition.sub_tasks[Top.i]
       IN stack' = WithTop([Top EXCEPT
                      !.sub_results = IF ret.verified THEN Append(@, ret) ELSE @,
                      !.context = IF ret.verified
                                  THEN MergeOutputs(@, ret.result, tasks[st].outputs)
                                  ELSE @,
                      !.i = @ + 1,
                      !.pc = "sub_loop"])
    /\ UNCHANGED <<tasks, heap, ret, logs, events>>
    /\ UNCHANGED <<loadVars, runVars, guardVars, callVars, max_depth>>

\* lines 230-253: the sub-task's solve has returned
sub_return ==
    /\ At("sub_wait")
    /\ Log((IF ret.verified THEN <<>> ELSE <<"Sub-task failed verification, aborting">>))
    /\ LET t == Top.task
           st == Top.decomposition.sub_tasks[Top.i]
           ctx == MergeOutputs(Top.context, ret.result, tasks[st].outputs)
       IN IF ~ret.verified
          THEN Return(RetOf(t, NullResult, FALSE, SubTaskFailed(st)), <<>>)
          ELSE /\ stack' = WithTop([Top EXCEPT
                              !.sub_results = Append(@, ret),
                              !.context = ctx,
                              !.i = @ + 1,
                              !.pc = "sub_loop"])
               /\ UNCHANGED <<ret, logs, events>>
    /\ UNCHANGED <<tasks, heap>>
    /\ UNCHANGED <<loadVars, runVars, guardVars, callVars, max_depth>>

\* lines 257-266: Combiner.combine for a decomposed task
combine_sub_results(raises) ==
    /\ At("combine")
    /\ Log((IF raises THEN <<"Error">> ELSE <<>>))
    /\ LET t == Top.task
           ev == <<<<"combine", t, 0>>>>
       IN IF raises THEN Fail("combiner", ev)
          ELSE /\ tasks' = [tasks EXCEPT
                              ![t].result = combine(Top.sub_results,
                                               Top.decomposition.recombination_plan),
                              ![t].status = "completed"]
               /\ stack' = WithTop([Top EXCEPT !.pc = "verify_combined"])
               /\ events' = events \o ev
               /\ UNCHANGED <<heap, ret, logs>>
    /\ UNCHANGED <<loadVars, runVars, guardVars, callVars, max_depth>>

\* lines 267-277: the verdict on the combined result
verify_combined(verdict) ==
    /\ At("verify_combined")
    /\ Log((IF verdict = "raise" THEN <<"Error">> ELSE <<"Task completed">>))
    /\ LET t == Top.task
           ev == <<<<"verify", t, 0>>>>
       IN IF verdict = "raise" THEN Fail("verifier", ev)
          ELSE /\ Return(RetOf(t, tasks[t].result, verdict = "valid", NoError), ev)
               /\ UNCHANGED <<tasks, heap>>
    /\ UNCHANGED <<loadVars, runVars, guardVars, callVars, max_depth>>

\* alt_exhausted that reports the combination of the last alternative
alt_exhausted_LastResult ==
    /\ At("alt_loop")
    /\ Top.alt > Len(Top.decomposition.alternatives)
    /\ Log(<<"All alternatives failed">>)
    /\ tasks' = [tasks EXCEPT ![Top.task].status = "failed"]
    /\ Return(RetOf(Top.task, tasks[Top.task].result, FALSE, AllAlternativesFailed), <<>>)
    /\ UNCHANGED heap
    /\ UNCHANGED <<loadVars, runVars, guardVars, callVars, max_depth>>

\* lines 105, 162-171: no alternative is left
alt_exhausted ==
    /\ At("alt_loop")
    /\ Top.alt > Len(Top.decomposition.alternatives)
    /\ Log(<<"All alternatives failed">>)
    /\ tasks' = [tasks EXCEPT ![Top.task].status = "failed"]
    /\ Return(RetOf(Top.task, NullResult, FALSE, AllAlternativesFailed), <<>>)
    /\ UNCHANGED heap
    /\ UNCHANGED <<loadVars, runVars, guardVars, callVars, max_depth>>

\* lines 111, 142-146: every sub-task of the alternative has verified
alt_plan_done ==
    /\ At("alt_loop")
    /\ Top.alt <= Len(Top.decomposition.alternatives)
    /\ Top.i > Len(Top.decomposition.alternatives[Top.alt])
    /\ Log((IF Top.i = 1 THEN <<"Trying alternative">> ELSE <<>>) \o <<"Alternative succeeded, recombining">>)
    /\ stack' = WithTop([Top EXCEPT !.pc = "alt_combine"])
    /\ UNCHANGED <<tasks, heap, ret, logs, events>>
    /\ UNCHANGED <<loadVars, runVars, guardVars, callVars, max_depth>>

\* lines 111-121: inputs resolved, solve(sub_task, depth + 2) is called
alt_call ==
    /\ At("alt_loop")
    /\ Top.alt <= Len(Top.decomposition.alternatives)
    /\ Top.i <= Len(Top.decomposition.alternatives[Top.alt])
    /\ Log((IF Top.i = 1 THEN <<"Trying alternative">> ELSE <<>>) \o <<"Solving alt sub-task">>)
    /\ LET st == Top.decomposition.alternatives[Top.alt][Top.i]
           ref == tasks[st].inputs
       IN /\ heap' = [heap EXCEPT ![ref] = ResolveInputs(@, Top.context)]
          /\ stack' = Append(WithTop([Top EXCEPT !.pc = "alt_wait"]),
                             Frame(st, Top.depth + 2))
    /\ UNCHANGED <<tasks, ret, logs, events>>
    /\ UNCHANGED <<loadVars, runVars, guardVars, callVars, max_depth>>

\* a next alternative that goes on with the context of the one before
NextAlternative_KeepContext(f) ==
    [f EXCEPT !.alt = @ + 1,
              !.i = 1,
              !.sub_results = <<>>,
              !.pc = "alt_loop"]

\* the next alternative starts: lines 105-110
NextAlternative(f) ==
    [f EXCEPT !.alt = @ + 1,
              !.i = 1,
              !.sub_results = <<>>,
              !.context = heap[tasks[f.task].inputs],
              !.pc = "alt_loop"]

\* alt_return without the test of lines 123-126: an unverified sub-result
\* is kept and the alternative goes on
alt_return_Continue ==
    /\ At("alt_wait")
    /\ Log(<<>>)
    /\ LET st == Top.decomposition.alternatives[Top.alt][Top.i]
       IN /\ stack' = WithTop([Top EXCEPT
                          !.sub_results = Append(@, ret),
                          !.context = MergeOutputs(@, ret.result, tasks[st].outputs),
                          !.i = @ + 1,
                          !.pc = "alt_loop"])
          /\ events' = events
    /\ UNCHANGED <<tasks, heap, ret, logs>>
    /\ UNCHANGED <<loadVars, runVars, guardVars, callVars, max_depth>>

\* lines 121-143: the alternative's sub-task has returned
alt_return ==
    /\ At("alt_wait")
    /\ Log((IF ret.verified THEN <<>> ELSE <<"Alternative sub-task failed verification">>))
    /\ LET st == Top.decomposition.alternatives[Top.alt][Top.i]
       IN IF ~ret.verified
          THEN /\ stack' = WithTop(NextAlternative(Top))
               /\ events' = Append(events, <<"abandon", Top.task, Top.alt>>)
          ELSE /\ stack' = WithTop([Top EXCEPT
                              !.sub_results = Append(@, ret),
                              !.context = MergeOutputs(@, ret.result, tasks[st].outputs),
                              !.i = @ + 1,
                              !.pc = "alt_loop"])
               /\ events' = events
    /\ UNCHANGED <<tasks, heap, ret, logs>>
    /\ UNCHANGED <<loadVars, runVars, guardVars, callVars, max_depth>>

\* alt_combine that treats an exception of the Combiner like a rejected
\* alternative and goes on to the next one
alt_combine_NextAlternative(raises) ==
    /\ At("alt_combine")
    /\ Log((IF raises THEN <<"Error">> ELSE <<>>))
    /\ LET t == Top.task
           ev == <<<<"combine", t, Top.alt>>>>
       IN IF raises
          THEN /\ stack' = WithTop(NextAlternative(Top))
               /\ events' = events \o ev \o <<<<"raise", t, WhoCode("combiner")>>>>
               /\ UNCHANGED <<tasks, heap, ret, logs>>
          ELSE /\ tasks' = [tasks EXCEPT
                              ![t].result = combine(Top.sub_results,
                                               Top.decomposition.recombination_plan)]
               /\ stack' = WithTop([Top EXCEPT !.pc = "alt_verify"])
               /\ events' = events \o ev
               /\ UNCHANGED <<heap, ret, logs>>
    /\ UNCHANGED <<loadVars, runVars, guardVars, callVars, max_depth>>

\* lines 146-148: Combiner.combine for an alternative
alt_combine(raises) ==
    /\ At("alt_combine")
    /\ Log((IF raises THEN <<"Error">> ELSE <<>>))
    /\ LET t == Top.task
           ev == <<<<"combine", t, Top.alt>>>>
       IN IF raises THEN Fail("combiner", ev)
          ELSE /\ tasks' = [tasks EXCEPT
                              ![t].result = combine(Top.sub_results,
                                               Top.decomposition.recombination_plan)]
               /\ stack' = WithTop([Top EXCEPT !.pc = "alt_verify"])
               /\ events' = events \o ev
               /\ UNCHANGED <<heap, ret, logs>>
    /\ UNCHANGED <<loadVars, runVars, guardVars, callVars, max_depth>>

\* alt_verify that goes on to the next alternative after a valid verdict
alt_verify_KeepGoing(verdict) ==
    /\ At("alt_verify")
    /\ Log((CASE verdict = "raise" -> <<"Error">>
             [] verdict = "valid" -> <<>>
             [] OTHER -> <<"Alternative recombination failed verification">>))
    /\ LET t == Top.task
           ev == <<<<"verify", t, Top.alt>>>>
       IN IF verdict = "raise" THEN Fail("verifier", ev)
          ELSE /\ stack' = WithTop(NextAlternative(Top))
               /\ events' = events \o ev
                     \o (IF verdict = "valid" THEN <<>> ELSE <<<<"rejected", t, Top.alt>>>>)
               /\ UNCHANGED <<tasks, heap, ret, logs>>
    /\ UNCHANGED <<loadVars, runVars, guardVars, callVars, max_depth>>

\* lines 149-160: the verdict on the alternative's combination
alt_verify(verdict) ==
    /\ At("alt_verify")
    /\ Log((CASE verdict = "raise" -> <<"Error">>
             [] verdict = "valid" -> <<>>
             [] OTHER -> <<"Alternative recombination failed verification">>))
    /\ LET t == Top.task
           ev == <<<<"verify", t, Top.alt>>>>
       IN CASE verdict = "raise" -> Fail("verifier", ev)
            [] verdict = "valid" ->
                  /\ tasks' = [tasks EXCEPT ![t].status = "verified"]
                  /\ Return(RetOf(t, tasks[t].result, TRUE, NoError), ev)
                  /\ UNCHANGED heap
            [] OTHER ->
                  /\ stack' = WithTop(NextAlternative(Top))
                  /\ events' = events \o ev \o <<<<"rejected", t, Top.alt>>>>
                  /\ UNCHANGED <<tasks, heap, ret, logs>>
    /\ UNCHANGED <<loadVars, runVars, guardVars, callVars, max_depth>>

(***************************************************************************)
(* SpecSolve: one top-level solve(root) on a fresh MetaAgent.              *)
(***************************************************************************)
\* lines 69-81: MetaAgent(decomposer, executor, verifier, combiner, depth)
\* followed by solve(root); the constructor stores the four collaborators
\* and an empty log
MetaAgent(depth) ==
    /\ raw = NoWorkflow
    /\ loadResult = NotLoaded
    /\ RunIdle
    /\ GuardIdle
    /\ CallIdle
    /\ max_depth = depth
    /\ \E a \in BOOLEAN, inputs \in RootInputs :
          /\ tasks = <<Task(Template(a, FALSE, inputs, <<>>, EmptyCtx), 0, 0, 1)>>
          /\ heap = <<inputs>>
    /\ stack = <<Frame(1, 0)>>
    /\ ret = NoRet
    /\ events = <<>>
    /\ execution_log = <<>>
    /\ logs = <<>>

InitSolve == MetaAgent(DefaultMaxDepth)

NextSolve ==
    \/ solve_atomic
    \/ decompose_raises
    \/ \E d \in NoneSet : decompose_none(d[1], d[2])
    \/ \E tpls \in NonEmptySeqs(SubTemplates, MaxTasks - Len(tasks)), plan \in PlanSet :
          decompose_sub_tasks(tpls, plan)
    \/ \E altsT \in NonEmptySeqs(NonEmptySeqs(AltTemplates, MaxTasks - Len(tasks)),
                                  MaxTasks - Len(tasks)),
          plan \in PlanSet :
          decompose_choice(altsT, plan)
    \/ \E result \in ExecSet : execute_returns(result)
    \/ execute_raises
    \/ \E verdict \in Verdicts : verify_leaf(verdict)
    \/ sub_loop_done
    \/ sub_skip
    \/ sub_call
    \/ sub_return
    \/ \E raises \in BOOLEAN : combine_sub_results(raises)
    \/ \E verdict \in Verdicts : verify_combined(verdict)
    \/ alt_exhausted
    \/ alt_plan_done
    \/ alt_call
    \/ alt_return
    \/ \E raises \in BOOLEAN : alt_combine(raises)
    \/ \E verdict \in Verdicts : alt_verify(verdict)


SpecSolve == InitSolve /\ [][NextSolve]_vars

(***************************************************************************)
(* SpecReference: solve(root) with the reference TaskVerifier and          *)
(* ResultCombiner; the decomposer and the executor are arbitrary.          *)
(***************************************************************************)
\* TaskVerifier.verify (lines 645-681): invalid for a None result; otherwise
\* every criterion passes, _check_criterion (lines 683-691) returning True
\* on both of its paths
TaskVerifier_verify(result) == IF result.null THEN "invalid" ELSE "valid"

\* the verdict of the reference verifier on an executed or pre-filled leaf
reference_verify_leaf ==
    /\ At("verify_atomic") \/ At("verify_prefilled")
    /\ verify_leaf(TaskVerifier_verify(tasks[Top.task].result))

\* ResultCombiner.combine called by solve: it raises when "Merge" meets a
\* None result
reference_combine ==
    /\ At("combine")
    /\ combine_sub_results(combine(Top.sub_results,
                                  Top.decomposition.recombination_plan) = CombineRaises)

reference_verify_combined ==
    /\ At("verify_combined")
    /\ verify_combined(TaskVerifier_verify(tasks[Top.task].result))

NextReference ==
    \/ solve_atomic
    \/ decompose_raises
    \/ \E d \in NoneSet : decompose_none(d[1], d[2])
    \/ \E tpls \in NonEmptySeqs(SubTemplates, MaxTasks - Len(tasks)), plan \in PlanSet :
          decompose_sub_tasks(tpls, plan)
    \/ \E result \in ExecSet : execute_returns(result)
    \/ execute_raises
    \/ reference_verify_leaf
    \/ sub_loop_done
    \/ sub_skip
    \/ sub_call
    \/ sub_return
    \/ reference_combine
    \/ reference_verify_combined

SpecReference == InitSolve /\ [][NextReference]_vars

(***************************************************************************)
(* SpecLog: a sequence of top-level solve calls on one MetaAgent.  Each    *)
(* call is made on a fresh Task once the previous call has returned; the   *)
(* agent, and with it execution_log, is the same throughout.  The first    *)
(* task is atomic; the later ones are atomic or decomposed.                *)
(***************************************************************************)
\* meta_agent.solve(task) called again on the same agent (line 83): the
\* previous call has returned, a new root Task is constructed by the caller
solve_again(is_atomic, inputs) ==
    /\ stack = <<>>
    /\ ret # NoRet
    /\ Len(tasks) < MaxTasks
    /\ tasks' = Append(tasks, Task(Template(is_atomic, FALSE, inputs, <<>>, EmptyCtx),
                                   0, 0, Len(heap) + 1))
    /\ heap' = Append(heap, inputs)
    /\ stack' = <<Frame(Len(tasks) + 1, 0)>>
    /\ UNCHANGED <<ret, logs, events, execution_log>>
    /\ UNCHANGED <<loadVars, runVars, guardVars, callVars, max_depth>>

\* MetaAgent(...) of lines 69-81, first called on an atomic root task
InitLog ==
    /\ MetaAgent(DefaultMaxDepth)
    /\ tasks[1].is_atomic

NextLog ==
    \/ NextSolve
    \/ \E is_atomic \in BOOLEAN, inputs \in RootInputs : solve_again(is_atomic, inputs)

SpecLog == InitLog /\ [][NextLog]_vars

(***************************************************************************)
(* SpecDepth: the same solve(root) on a MetaAgent constructed with a small *)
(* max_depth (test_meta_agent_max_depth: max_depth=0).                     *)
(***************************************************************************)
MaxDepthSet == {0, 1}
InitDepth == \E depth \in MaxDepthSet : MetaAgent(depth)
SpecDepth == InitDepth /\ [][NextSolve]_vars

(***************************************************************************)
(* SpecContext: solve(root) of a task whose Decomposer returns atomic      *)
(* sub-tasks with placeholder inputs, guards and output mappings, and      *)
(* whose collaborators do not raise.                                       *)
(***************************************************************************)
\* root inputs: none, or the keys ok and a
ContextRootInputs ==
    {EmptyCtx, [k \in {"ok", "a"} |-> IF k = "ok" THEN VInt(2) ELSE VInt(3)]}
\* sub-task inputs: a = "r"; a = "ok" and r = None; a = None and r = 5
ContextInputs ==
    {[k \in {"a"} |-> VStr(4)],
     [k \in {"a", "r"} |-> IF k = "a" THEN VStr(3) ELSE VNone],
     [k \in {"a", "r"} |-> IF k = "a" THEN VNone ELSE VInt(5)]}
\* output mappings parent key -> child key: none, or ok <- r and r <- s
ContextOutputs ==
    {EmptyCtx, [k \in {"ok", "r"} |-> IF k = "ok" THEN "r" ELSE "s"]}
ContextTemplates ==
    {Template(TRUE, FALSE, i, g, o) :
        i \in ContextInputs, g \in {<<>>, <<RIsOne>>}, o \in ContextOutputs}
ContextExecSet ==
    {[k \in {"r"} |-> VInt(0)],
     [k \in {"r", "s"} |-> IF k = "r" THEN VInt(1) ELSE VInt(0)]}

InitContext ==
    /\ raw = NoWorkflow
    /\ loadResult = NotLoaded
    /\ RunIdle
    /\ GuardIdle
    /\ CallIdle
    /\ max_depth = DefaultMaxDepth
    /\ \E inputs \in ContextRootInputs :
          /\ tasks = <<Task(Template(FALSE, FALSE, inputs, <<>>, EmptyCtx), 0, 0, 1)>>
          /\ heap = <<inputs>>
    /\ stack = <<Frame(1, 0)>>
    /\ ret = NoRet
    /\ events = <<>>
    /\ execution_log = <<>>
    /\ logs = <<>>

NextContext ==
    \/ solve_atomic
    \/ \E tpls \in NonEmptySeqs(ContextTemplates, MaxTasks - Len(tasks)) :
          decompose_sub_tasks(tpls, "Chain")
    \/ \E result \in ContextExecSet : execute_returns(result)
    \/ \E verdict \in {"valid", "invalid"} : verify_leaf(verdict)
    \/ sub_loop_done
    \/ sub_skip
    \/ sub_call
    \/ sub_return
    \/ combine_sub_results(FALSE)
    \/ \E verdict \in {"valid", "invalid"} : verify_combined(verdict)

SpecContext == InitContext /\ [][NextContext]_vars

(***************************************************************************)
(* SpecChoice: solve(root) on a root with inputs whose decomposition is a  *)
(* choice between alternatives of atomic sub-tasks that declare input      *)
(* placeholders and output mappings.  Every sub-task has an inputs dict of *)
(* its own, as _plan_to_tasks and ChoiceTaskDecomposer build them;         *)
(* arguments keeps the root's inputs as the caller passed them.            *)
(***************************************************************************)
ChoiceTemplates ==
    {Template(TRUE, FALSE, i, <<>>, o) : i \in ContextInputs, o \in ContextOutputs}

\* the lists of alternatives with at most n sub-tasks in all
RECURSIVE ChoiceAlternatives(_)
ChoiceAlternatives(n) ==
    {<<>>} \cup UNION {{<<h>> \o t : h \in [1..k -> ChoiceTemplates],
                                      t \in ChoiceAlternatives(n - k)} : k \in 1..n}

InitChoice ==
    /\ raw = NoWorkflow
    /\ loadResult = NotLoaded
    /\ RunIdle
    /\ GuardIdle
    /\ max_depth = DefaultMaxDepth
    /\ \E inputs \in ContextRootInputs :
          /\ tasks = <<Task(Template(FALSE, FALSE, inputs, <<>>, EmptyCtx), 0, 0, 1)>>
          /\ heap = <<inputs>>
          /\ arguments = [inputs |-> inputs]
    /\ callee = "solve"
    /\ returned = NoCall
    /\ stack = <<Frame(1, 0)>>
    /\ ret = NoRet
    /\ events = <<>>
    /\ execution_log = <<>>
    /\ logs = <<>>

NextChoice ==
    \/ solve_atomic
    \/ \E altsT \in ChoiceAlternatives(MaxTasks - Len(tasks)) \ {<<>>} :
          decompose_choice(altsT, "Chain")
    \/ \E result \in ContextExecSet : execute_returns(result)
    \/ \E verdict \in {"valid", "invalid"} : verify_leaf(verdict)
    \/ alt_exhausted
    \/ alt_plan_done
    \/ alt_call
    \/ alt_return
    \/ alt_combine(FALSE)
    \/ \E verdict \in {"valid", "invalid"} : alt_verify(verdict)

SpecChoice == InitChoice /\ [][NextChoice]_vars

(***************************************************************************)
(* The rule-based TaskDecomposer.  Of a description it reads the number of *)
(* " and " and of " then " separators and whether one of the single-action *)
(* verbs occurs; a plan text is named by the word before its colon.        *)
(***************************************************************************)
Description(ands, thens, keyword) ==
    [ands |-> ands, thens |-> thens, keyword |-> keyword]

_is_simple_enough(is_atomic, description) ==
    is_atomic \/ (description.keyword /\ description.ands = 0)

\* the templates of the sub-tasks: the " and " parts share the parent's
\* inputs dict, the first " then " part shares it and the later ones get {}
_heuristic_decompose(description) ==
    IF description.ands > 0
    THEN [i \in 1..(description.ands + 1) |->
             Template(TRUE, TRUE, EmptyCtx, <<>>, EmptyCtx)]
    ELSE IF description.thens > 0
    THEN [i \in 1..(description.thens + 1) |->
             Template(TRUE, i = 1, EmptyCtx, <<>>, EmptyCtx)]
    ELSE <<>>

_determine_strategy(sub_tasks) ==
    IF sub_tasks = <<>> THEN "none" ELSE "sequential"

_create_recombination_plan(strategy) ==
    IF strategy = "sequential" THEN "Chain"
    ELSE IF strategy = "parallel" THEN "Merge"
    ELSE "Direct"

TaskDecomposer_decompose(is_atomic, description) ==
    IF _is_simple_enough(is_atomic, description)
    THEN DecompositionResult(<<>>, "none", "direct", <<>>)
    ELSE LET sub_tasks == _heuristic_decompose(description)
             strategy == _determine_strategy(sub_tasks)
         IN DecompositionResult(sub_tasks, strategy,
                                _create_recombination_plan(strategy), <<>>)

(***************************************************************************)
(* SpecThen: solve(root) with the rule-based TaskDecomposer on a root      *)
(* whose description is "... then ..." without a single-action verb.       *)
(***************************************************************************)
ThenRootInputs ==
    ContextRootInputs \cup {[k \in {"r"} |-> VInt(0)]}

InitThen ==
    /\ raw = NoWorkflow
    /\ loadResult = NotLoaded
    /\ RunIdle
    /\ GuardIdle
    /\ CallIdle
    /\ max_depth = DefaultMaxDepth
    /\ \E inputs \in ThenRootInputs :
          /\ tasks = <<Task(Template(FALSE, FALSE, inputs, <<>>, EmptyCtx), 0, 0, 1)>>
          /\ heap = <<inputs>>
    /\ stack = <<Frame(1, 0)>>
    /\ ret = NoRet
    /\ events = <<>>
    /\ execution_log = <<>>
    /\ logs = <<>>

NextThen ==
    \/ solve_atomic
    \/ \E thens \in 1..(MaxTasks - 2) :
          LET d == TaskDecomposer_decompose(FALSE, Description(0, thens, FALSE))
          IN decompose_sub_tasks(d.sub_tasks, d.recombination_plan)
    \/ \E result \in ContextExecSet : execute_returns(result)
    \/ \E verdict \in {"valid", "invalid"} : verify_leaf(verdict)
    \/ sub_loop_done
    \/ sub_call
    \/ sub_return
    \/ combine_sub_results(FALSE)
    \/ \E verdict \in {"valid", "invalid"} : verify_combined(verdict)

SpecThen == InitThen /\ [][NextThen]_vars

(***************************************************************************)
(* SpecAnd: solve(root) with the rule-based TaskDecomposer on a root whose *)
(* description is "... and ...".  arguments keeps the inputs mapping as    *)
(* the caller passed it.                                                   *)
(***************************************************************************)
\* root inputs: {}, {ok: 2, a: 3}, and {a: "r", r: 1} whose value of a
\* names the key r
AndRootInputs ==
    ContextRootInputs
    \cup {[k \in {"a", "r"} |-> IF k = "a" THEN VStr(4) ELSE VInt(1)]}

InitAnd ==
    /\ raw = NoWorkflow
    /\ loadResult = NotLoaded
    /\ RunIdle
    /\ GuardIdle
    /\ max_depth = DefaultMaxDepth
    /\ \E inputs \in AndRootInputs :
          /\ tasks = <<Task(Template(FALSE, FALSE, inputs, <<>>, EmptyCtx), 0, 0, 1)>>
          /\ heap = <<inputs>>
          /\ arguments = [inputs |-> inputs]
    /\ callee = "solve"
    /\ returned = NoCall
    /\ stack = <<Frame(1, 0)>>
    /\ ret = NoRet
    /\ events = <<>>
    /\ execution_log = <<>>
    /\ logs = <<>>

NextAnd ==
    \/ solve_atomic
    \/ \E ands \in 1..(MaxTasks - 1) :
          LET d == TaskDecomposer_decompose(FALSE, Description(ands, 0, FALSE))
          IN decompose_sub_tasks(d.sub_tasks, d.recombination_plan)
    \/ \E result \in ContextExecSet : execute_returns(result)
    \/ \E verdict \in {"valid", "invalid"} : verify_leaf(verdict)
    \/ sub_loop_done
    \/ sub_call
    \/ sub_return
    \/ combine_sub_results(FALSE)
    \/ \E verdict \in {"valid", "invalid"} : verify_combined(verdict)

SpecAnd == InitAnd /\ [][NextAnd]_vars

(***************************************************************************)
(* ChoiceTaskDecomposer and loader.py's YamlTaskDecomposer.  A decomposer  *)
(* returns Task objects; here it returns their templates.                  *)
(***************************************************************************)
NumbersOf(n) == [k \in {"numbers"} |-> VList(n)]

ChoiceTaskDecomposer_decompose(task) ==
    LET numbers == IF "numbers" \in DOMAIN task.inputs
                   THEN task.inputs["numbers"] ELSE VNone
    IN IF numbers.t = "list" /\ numbers.v = 2
       THEN DecompositionResult(<<>>, "choice", "merge",
               << <<Template(TRUE, FALSE, NumbersOf(2), <<>>, EmptyCtx)>>,
                  <<Template(TRUE, FALSE, NumbersOf(1), <<>>, EmptyCtx),
                    Template(TRUE, FALSE, NumbersOf(1), <<>>, EmptyCtx),
                    Template(TRUE, FALSE, EmptyCtx, <<>>, EmptyCtx)>> >>)
       ELSE TaskDecomposer_decompose(task.is_atomic, task.description)

\* a parsed YAML specification: the guards of its first decision node (or
\* NoDecisionNode), its nodes and its edges (NoEdges: the key is absent)
NoDecisionNode == [present |-> FALSE, guards |-> <<>>]
DecisionNode(guards) == [present |-> TRUE, guards |-> guards]
NoEdges == [present |-> FALSE, list |-> <<>>]
EdgeList(edges) == [present |-> TRUE, list |-> edges]
YamlSpec(decision_node, nodes, edges) ==
    [decision_node |-> decision_node, nodes |-> nodes, edges |-> edges]

\* a guard of the decision node; kind says which keys it has: "return" an
\* action of type return, "choice" a decomposition of strategy choice, "plan"
\* a decomposition of any other strategy, "bare" neither
YamlGuard(condition, kind, alternatives, plan) ==
    [condition |-> condition, kind |-> kind,
     alternatives |-> alternatives, plan |-> plan]

\* a plan node that declares no inputs and no outputs
PlanNode(type) == [type |-> type]

\* lines 196-244: a node without declared inputs inherits the parent's
_plan_to_tasks(plan, parent_inputs) ==
    [j \in DOMAIN plan |->
        Template(plan[j].type # "workflow", FALSE, parent_inputs, <<>>, EmptyCtx)]

\* lines 273-279: Kahn's loop of the loader, which yields the order
RECURSIVE LoaderKahn(_, _, _, _)
LoaderKahn(edges, queue, indegree, ordered) ==
    IF queue = <<>> THEN ordered
    ELSE LET cur == Head(queue)
             r == KahnRelax(AdjacencyOf(edges, cur), indegree, Tail(queue))
         IN LoaderKahn(edges, r.queue, r.indegree, Append(ordered, cur))

\* lines 255-281: the ids of the nodes in execution order; edges between
\* unknown ids are ignored, the nodes of a cycle are left out
OrderedIds(nodes, edges) ==
    IF edges = <<>> THEN [j \in DOMAIN nodes |-> nodes[j].id]
    ELSE LET ids == DictKeys(nodes, {})
             known == {nodes[j].id : j \in DOMAIN nodes}
             valid == SelectSeq(edges, LAMBDA e : e.src \in known /\ e.dest \in known)
             indegree == [id \in known |->
                             Cardinality({i \in DOMAIN valid : valid[i].dest = id})]
             queue == SelectSeq(ids, LAMBDA id : indegree[id] = 0)
         IN LoaderKahn(valid, queue, indegree, <<>>)

\* lines 309-310: the `when` of every edge into nid
RECURSIVE IncomingGuards(_, _)
IncomingGuards(edges, nid) ==
    IF edges = <<>> THEN <<>>
    ELSE (IF Head(edges).dest = nid THEN <<Head(edges).when>> ELSE <<>>)
         \o IncomingGuards(Tail(edges), nid)

\* lines 246-313, for nodes that declare no io
_nodes_to_tasks(nodes, edges) ==
    LET ordered == OrderedIds(nodes, edges)
    IN [j \in DOMAIN ordered |->
           Template(TRUE, FALSE, EmptyCtx, IncomingGuards(edges, ordered[j]), EmptyCtx)]

\* lines 130-194: the first guard that holds and has a return action or a
\* decomposition decides
RECURSIVE YamlGuardLoop(_, _)
YamlGuardLoop(guards, ctx) ==
    IF guards = <<>> THEN DecompositionResult(<<>>, "none", "direct", <<>>)
    ELSE LET guard == Head(guards)
         IN IF ~_eval_simple_condition(guard.condition, ctx).value
            THEN YamlGuardLoop(Tail(guards), ctx)
            ELSE CASE guard.kind = "return" ->
                        DecompositionResult(<<>>, "none", "direct", <<>>)
                   [] guard.kind = "choice" ->
                        DecompositionResult(<<>>, "choice", "merge",
                            [a \in DOMAIN guard.alternatives |->
                                _plan_to_tasks(guard.alternatives[a], ctx)])
                   [] guard.kind = "plan" ->
                        DecompositionResult(_plan_to_tasks(guard.plan, ctx),
                                            "hierarchical", "merge", <<>>)
                   [] OTHER -> YamlGuardLoop(Tail(guards), ctx)

\* lines 104-194
YamlTaskDecomposer_decompose(spec, task) ==
    IF ~spec.decision_node.present
    THEN IF spec.nodes # <<>> /\ spec.edges.present
         THEN DecompositionResult(_nodes_to_tasks(spec.nodes, spec.edges.list),
                                  "hierarchical", "merge", <<>>)
         ELSE DecompositionResult(<<>>, "none", "direct", <<>>)
    ELSE YamlGuardLoop(spec.decision_node.guards, task.inputs)

(***************************************************************************)
(* SpecDecompose: one call decompose(task, depth) of one of the three      *)
(* decomposers.                                                            *)
(***************************************************************************)
Descriptions ==
    {Description(a, t, k) : a \in 0..1, t \in 0..1, k \in BOOLEAN}
DecomposeInputs == {EmptyCtx, NumbersOf(1), NumbersOf(2)}
DecomposeTasks ==
    {[is_atomic |-> a, description |-> d, inputs |-> i] :
        a \in BOOLEAN, d \in Descriptions, i \in DecomposeInputs}

\* conditions: the default "true", and "len(numbers) == 2"
YamlConditions == {TrueGuard, Cmp(LenOf("numbers"), "Eq", Const(VInt(2)))}
ToolPlans == {[j \in 1..n |-> PlanNode("tool")] : n \in 0..MaxPlan}
YamlPlans == ToolPlans \cup {<<PlanNode("workflow")>>}
YamlAlternatives == SeqsUpTo({<<>>, <<PlanNode("tool")>>}, MaxPlan)
YamlGuards ==
    {YamlGuard(c, k, <<>>, <<>>) : c \in YamlConditions, k \in {"return", "bare"}}
    \cup {YamlGuard(c, "choice", a, <<>>) : c \in YamlConditions, a \in YamlAlternatives}
    \cup {YamlGuard(c, "plan", <<>>, pl) : c \in YamlConditions, pl \in YamlPlans}
\* the specs with a decision node of at most max_guards guards, and the
\* specs without one
YamlSpecs(max_guards) ==
    {YamlSpec(DecisionNode(gs), <<>>, NoEdges) : gs \in SeqsUpTo(YamlGuards, max_guards)}
    \cup {YamlSpec(NoDecisionNode, ns, es) :
            ns \in SeqsUpTo({Node(id, <<>>) : id \in LoadNodeIds}, MaxLoadNodes),
            es \in {NoEdges} \cup
                   {EdgeList(l) :
                       l \in SeqsUpTo({Edge(sr, d, TrueGuard) :
                                          sr \in LoadNodeIds, d \in LoadNodeIds},
                                      MaxLoadEdges)}}

DecomposeArgs(max_guards) ==
    {[decomposer |-> c, spec |-> YamlSpec(NoDecisionNode, <<>>, NoEdges), task |-> t] :
        c \in {"TaskDecomposer", "ChoiceTaskDecomposer"}, t \in DecomposeTasks}
    \cup {[decomposer |-> "YamlTaskDecomposer", spec |-> sp,
           task |-> [is_atomic |-> FALSE, description |-> Description(0, 0, FALSE),
                     inputs |-> i]] :
            sp \in YamlSpecs(max_guards), i \in DecomposeInputs}

InitDecompose ==
    /\ raw = NoWorkflow
    /\ loadResult = NotLoaded
    /\ RunIdle
    /\ SolveIdle
    /\ GuardIdle
    /\ callee = "decompose"
    /\ arguments \in DecomposeArgs(MaxGuards)
    /\ returned = NoCall

Returns(value) ==
    /\ returned' = value
    /\ callee' = "returned"
    /\ UNCHANGED arguments
    /\ UNCHANGED <<loadVars, runVars, solveVars, guardVars>>

TaskDecomposer_call ==
    /\ callee = "decompose"
    /\ arguments.decomposer = "TaskDecomposer"
    /\ Returns(TaskDecomposer_decompose(arguments.task.is_atomic,
                                        arguments.task.description))

ChoiceTaskDecomposer_call ==
    /\ callee = "decompose"
    /\ arguments.decomposer = "ChoiceTaskDecomposer"
    /\ Returns(ChoiceTaskDecomposer_decompose(arguments.task))

YamlTaskDecomposer_call ==
    /\ callee = "decompose"
    /\ arguments.decomposer = "YamlTaskDecomposer"
    /\ Returns(YamlTaskDecomposer_decompose(arguments.spec, arguments.task))

NextDecompose ==
    \/ TaskDecomposer_call
    \/ ChoiceTaskDecomposer_call
    \/ YamlTaskDecomposer_call

SpecDecompose == InitDecompose /\ [][NextDecompose]_vars

(***************************************************************************)
(* SpecCombine: one call ResultCombiner.combine(task, sub_tasks,           *)
(* sub_results, recombination_plan).                                       *)
(***************************************************************************)
\* the plan texts the decomposers produce: "Chain: ...", "Merge: ...",
\* "Direct: ..." (TaskDecomposer), and the tags "merge" and "direct"
PlanTexts == {"Chain", "Merge", "Direct", "merge", "direct"}
CombineResults ==
    {NullResult} \cup {DictResult("exec", e) : e \in ExecSet}
CombineSubResults ==
    {RetOf(0, r, v, NoError) : r \in CombineResults, v \in BOOLEAN}
CombineArgs ==
    {[sub_results |-> rs, recombination_plan |-> p] :
        rs \in SeqsUpTo(CombineSubResults, MaxTasks - 1), p \in PlanTexts}

InitCombine ==
    /\ raw = NoWorkflow
    /\ loadResult = NotLoaded
    /\ RunIdle
    /\ SolveIdle
    /\ GuardIdle
    /\ callee = "combine"
    /\ arguments \in CombineArgs
    /\ returned = NoCall

ResultCombiner_combine ==
    /\ callee = "combine"
    /\ Returns(combine(arguments.sub_results, arguments.recombination_plan))

NextCombine == ResultCombiner_combine

SpecCombine == InitCombine /\ [][NextCombine]_vars

(***************************************************************************)
(* Properties of the workflow compiler (SpecLoad).                         *)
(***************************************************************************)
EdgePairs(edges) == {<<edges[i].src, edges[i].dest>> : i \in DOMAIN edges}

RECURSIVE ReachWithin(_, _, _)
ReachWithin(rel, from, k) ==
    IF k = 0 THEN {}
    ELSE LET nxt == {p[2] : p \in {q \in rel : q[1] \in from}}
         IN nxt \cup ReachWithin(rel, nxt, k - 1)

\* the edge relation has a directed cycle (a self-loop is one)
HasCycle(edges) ==
    LET rel == EdgePairs(edges)
    IN \E p \in rel : p[1] \in ReachWithin(rel, {p[1]}, Cardinality(rel))

EdgeKnown(workflow, i) ==
    /\ workflow.edges[i].src \in NodeIds(workflow)
    /\ workflow.edges[i].dest \in NodeIds(workflow)

Loaded == loadResult.status # "none"

ReturnedWorkflowIsDag ==
    loadResult.status = "returned" =>
        /\ \A i \in DOMAIN loadResult.workflow.edges : EdgeKnown(loadResult.workflow, i)
        /\ ~HasCycle(loadResult.workflow.edges)

C29_CycleOnlyForCycles ==
    /\ (Loaded /\ loadResult.error = CycleError) => HasCycle(raw.edges)
    /\ (Loaded /\ ~HasCycle(raw.edges)
          /\ \A i \in DOMAIN raw.edges : EdgeKnown(raw, i)) =>
            loadResult.status = "returned"

\* the same for node lists without a repeated id
C29_DistinctIdsCycleOnlyForCycles ==
    (Loaded /\ Cardinality(NodeIds(raw)) = Len(raw.nodes))
    => C29_CycleOnlyForCycles

(***************************************************************************)
(* Properties of the workflow executor (SpecRun).                          *)
(***************************************************************************)
Predecessors(workflow, id) ==
    {workflow.edges[k].src : k \in {i \in DOMAIN workflow.edges : workflow.edges[i].dest = id}}

\* C1: when a node is executed, the source of each of its incoming edges is
\* already in the executed set.
C1_PredecessorsFirst ==
    [][\A id \in executed' \ executed : Predecessors(wf, id) \subseteq executed]_vars

C1_Witness ==
    \E i \in DOMAIN execOrder :
        /\ Cardinality(Predecessors(wf, execOrder[i])) >= 2
        /\ guardFalse # {}

Drained == wpc = "loop" /\ ready = <<>>

\* D has two or more predecessors; one of them was never enqueued because the
\* guard of each of its own incoming edges evaluated false; every other
\* predecessor executed and its edges to D had a true guard
SkippedBranchFanIn(D) ==
    /\ Cardinality(Predecessors(wf, D)) >= 2
    /\ \E P \in Predecessors(wf, D) :
          /\ P \notin executed
          /\ InEdges(wf, P) # <<>>
          /\ Range(InEdges(wf, P)) \subseteq guardFalse
          /\ \A k \in DOMAIN wf.edges :
                (wf.edges[k].dest = D /\ wf.edges[k].src # P) =>
                    (wf.edges[k].src \in executed /\ k \in guardTrue)

\* C2: a branch that was not taken does not block a fan-in: by the time the
\* readiness queue has drained, a node whose only missing predecessor was
\* skipped by a false guard has been executed.
C2_FanInNotBlocked ==
    Drained => \A i \in DOMAIN wf.nodes :
                  SkippedBranchFanIn(wf.nodes[i].id) => wf.nodes[i].id \in executed

AllHold(exprs, ctx) == \A i \in DOMAIN exprs : evaluate_condition(exprs[i], ctx)
NoneHolds(exprs, ctx) == \A i \in DOMAIN exprs : ~evaluate_condition(exprs[i], ctx)

\* C10: once the queue has drained, run_workflow returns the outputs exactly
\* when every success criterion is true and every failure condition is false
\* in the final context; otherwise it aborts, the error names a violated
\* expression, and nothing is returned.
C10_FinalChecks ==
    [][Drained =>
         IF AllHold(wf.success_criteria, context)
            /\ NoneHolds(wf.failure_conditions, context)
         THEN /\ wpc' = "returned"
              /\ DOMAIN wout' = Range(wf.outputs)
         ELSE /\ wpc' = "aborted"
              /\ wout' = EmptyCtx
              /\ \/ /\ werr'[1] = "Success criteria failed"
                    /\ werr'[2] \in Range(wf.success_criteria)
                    /\ ~evaluate_condition(werr'[2], context)
                 \/ /\ werr'[1] = "Failure condition met"
                    /\ werr'[2] \in Range(wf.failure_conditions)
                    /\ evaluate_condition(werr'[2], context)]_vars

C10_Witness ==
    /\ wpc = "aborted"
    /\ werr[1] = "Failure condition met"
    /\ wf.success_criteria # <<>>
    /\ Len(execOrder) >= 2


(***************************************************************************)
(* Properties of MetaAgent.solve, checked under SpecSolve.  They are       *)
(* stated over events, the history of the run: position k of events is the *)
(* k-th thing solve did.                                                   *)
(***************************************************************************)
EventIs(k, kind, t, n) ==
    /\ k \in DOMAIN events
    /\ events[k][1] = kind
    /\ events[k][2] = t
    /\ events[k][3] = n

Happened(kind, t, n) == \E k \in DOMAIN events : EventIs(k, kind, t, n)

Decomposed(t) ==
    \E k \in DOMAIN events : events[k][1] = "decompose" /\ events[k][2] = t

\* what the Decomposer returned for t
DecompositionOf(t) ==
    LET k == CHOOSE k \in DOMAIN events :
                 events[k][1] = "decompose" /\ events[k][2] = t
    IN events[k][3]

\* t was decomposed into alternatives (line 102)
IsChoiceTask(t) ==
    /\ Decomposed(t)
    /\ DecompositionOf(t).decomposition_strategy = "choice"
    /\ DecompositionOf(t).alternatives # <<>>

\* event k is the entry of a solve call
IsSolve(k) == events[k][1] = "solve"
\* event k is a solve call returning verified = v (1 true, 0 false)
IsReturn(k, v) == events[k][1] = "return" /\ events[k][3] = v

\* before event k, alternative i of p was abandoned (a sub-task of it returned
\* unverified) or its combination was rejected by the Verifier
AlternativeOver(p, i, k) ==
    \E m \in 1..(k - 1) :
       \/ /\ IsReturn(m, 0)
          /\ tasks[events[m][2]].parent_id = p
          /\ tasks[events[m][2]].alt = i
       \/ EventIs(m, "rejected", p, i)

\* the dicts the verified sub-tasks ids returned
VerifiedResults(ids) ==
    [j \in DOMAIN ids |-> RetOf(ids[j], tasks[ids[j]].result, TRUE, NoError)]

\* event n is the verified return of choice task p with the combination of
\* alternative a
ReturnsAlternative(p, a, n) ==
    LET d == DecompositionOf(p)
        ids == d.alternatives[a]
    IN /\ EventIs(n - 1, "verify", p, a)
       /\ \A j \in DOMAIN ids : Happened("return", ids[j], 1)
       /\ \A i \in 1..(a - 1) : AlternativeOver(p, i, n)
       /\ tasks[p].result = combine(VerifiedResults(ids), d.recombination_plan)
       /\ n = Len(events) => ret = RetOf(p, tasks[p].result, TRUE, NoError)

\* C3: the alternatives of a choice decomposition are attempted in ascending
\* index order: no sub-task of alternative j is solved before every
\* alternative i < j has been abandoned or had its combination rejected;
\* a verified return of the choice task carries the combination of the
\* lowest-index alternative that succeeded, and after it no sub-task of the
\* choice task is solved any more.
C3_AlternativesAscending ==
    /\ \A k \in DOMAIN events :
          IsSolve(k) /\ tasks[events[k][2]].alt > 0 =>
             \A i \in 1..(tasks[events[k][2]].alt - 1) :
                AlternativeOver(tasks[events[k][2]].parent_id, i, k)
    /\ \A n \in DOMAIN events :
          IsReturn(n, 1) /\ IsChoiceTask(events[n][2]) =>
             LET p == events[n][2]
             IN /\ \E a \in DOMAIN DecompositionOf(p).alternatives :
                      ReturnsAlternative(p, a, n)
                /\ \A k \in (n + 1)..Len(events) :
                      IsSolve(k) => tasks[events[k][2]].parent_id # p

\* the root is a choice between two alternatives; the first was given up and
\* the combination of the second was returned verified
C3_Witness ==
    /\ stack = <<>>
    /\ IsChoiceTask(1)
    /\ Len(DecompositionOf(1).alternatives) = 2
    /\ AlternativeOver(1, 1, Len(events))
    /\ EventIs(Len(events) - 1, "verify", 1, 2)
    /\ ret.task = 1 /\ ret.verified

\* the last event is the return of choice task p
ChoiceReturned(p) ==
    /\ events # <<>>
    /\ events[Len(events)][1] = "return"
    /\ events[Len(events)][2] = p
    /\ IsChoiceTask(p)

\* no alternative of p had all its sub-tasks verified and its combination
\* verified
NoAlternativeSucceeded(p) ==
    \A a \in DOMAIN DecompositionOf(p).alternatives :
       ~(/\ EventIs(Len(events) - 1, "verify", p, a)
         /\ IsReturn(Len(events), 1))

AllAlternativesOver(p) ==
    \A a \in DOMAIN DecompositionOf(p).alternatives :
       AlternativeOver(p, a, Len(events))

ReturnedAllFailed(p) ==
    /\ ret = RetOf(p, NullResult, FALSE, AllAlternativesFailed)
    /\ tasks[p].status = "failed"

\* C4 as stated: when no alternative of a choice decomposition succeeds,
\* solve returns result = null, verified = false and the error 'All choice
\* alternatives failed', and the task's status is 'failed'.
C4_Original ==
    \A p \in DOMAIN tasks :
       ChoiceReturned(p) /\ NoAlternativeSucceeded(p) => ReturnedAllFailed(p)

\* C4: when every alternative of a choice decomposition is abandoned or has
\* its combination rejected, solve returns result = null, verified = false
\* and the error 'All choice alternatives failed' with status 'failed'; when
\* no alternative succeeds for another reason, the Combiner or the Verifier
\* has raised for the choice task and solve returns result = null, verified
\* = false and that exception's message, again with status 'failed'.
C4_Amended ==
    \A p \in DOMAIN tasks :
       ChoiceReturned(p) /\ NoAlternativeSucceeded(p) =>
          IF AllAlternativesOver(p)
          THEN ReturnedAllFailed(p)
          ELSE \E who \in {"combiner", "verifier"} :
                  /\ EventIs(Len(events) - 1, "raise", p, WhoCode(who))
                  /\ ret = RetOf(p, NullResult, FALSE, ExceptionMessage(who, p))
                  /\ tasks[p].status = "failed"

\* the root is a choice between two alternatives, one abandoned and one
\* whose combination was rejected, and has returned
C4_Witness ==
    /\ stack = <<>>
    /\ ChoiceReturned(1)
    /\ Len(DecompositionOf(1).alternatives) = 2
    /\ \E a \in 1..2 : Happened("rejected", 1, a)
    /\ \E a \in 1..2 : \E s \in DOMAIN tasks :
          tasks[s].alt = a /\ Happened("return", s, 0)
    /\ ReturnedAllFailed(1)

\* the position of sub-task s among the sub-tasks of p
DeclaredAt(p, s) == CHOOSE j \in DOMAIN tasks[p].sub_tasks : tasks[p].sub_tasks[j] = s

\* event k is the entry of solve for a sub-task of p
IsSubSolve(p, k) == IsSolve(k) /\ tasks[events[k][2]].parent_id = p

\* C5: in a decomposition that is not a choice the sub-tasks are solved in
\* declaration order; when the solve of one of them returns unverified the
\* parent's solve returns next, with result = null, verified = false and an
\* error naming that sub-task, no later sibling is solved and the Combiner is
\* not invoked for the parent.
C5_AbortAtFirstFailure ==
    \A p \in DOMAIN tasks :
       tasks[p].sub_tasks # <<>> =>
          /\ \A k1 \in DOMAIN events :
                IsSubSolve(p, k1) =>
                   \A k2 \in (k1 + 1)..Len(events) :
                      IsSubSolve(p, k2) =>
                         DeclaredAt(p, events[k1][2]) < DeclaredAt(p, events[k2][2])
          /\ \A k \in DOMAIN events :
                IsReturn(k, 0) /\ tasks[events[k][2]].parent_id = p =>
                   /\ \A m \in DOMAIN events : ~EventIs(m, "combine", p, 0)
                   /\ \A m \in (k + 1)..Len(events) : ~IsSubSolve(p, m)
                   /\ k < Len(events) => EventIs(k + 1, "return", p, 0)
                   /\ k + 1 = Len(events) =>
                         ret = RetOf(p, NullResult, FALSE, SubTaskFailed(events[k][2]))

\* the root has two sub-tasks, the first was solved and came back unverified,
\* and the root has returned
C5_Witness ==
    /\ stack = <<>>
    /\ Len(tasks[1].sub_tasks) = 2
    /\ Happened("solve", tasks[1].sub_tasks[1], 1)
    /\ Happened("return", tasks[1].sub_tasks[1], 0)
    /\ ret = RetOf(1, NullResult, FALSE, SubTaskFailed(tasks[1].sub_tasks[1]))

\* C6: an exception raised by the Decomposer, the Executor, the Verifier or
\* the Combiner does not leave solve: the solve call it was raised in
\* returns result = null, verified = false and the exception's message as
\* error, and the status of that call's task is 'failed'.
C6_ExceptionsAreReturned ==
    \A k \in DOMAIN events :
       events[k][1] = "raise" =>
          LET t == events[k][2]
              who == Collaborators[events[k][3]]
          IN /\ EventIs(k + 1, "return", t, 0)
             /\ tasks[t].status = "failed"
             /\ k + 1 = Len(events) =>
                   ret = RetOf(t, NullResult, FALSE, ExceptionMessage(who, t))

\* a collaborator raised while a sub-task was being solved, the sub-task's
\* solve returned to its caller and the top-level solve has returned too
C6_Witness ==
    /\ stack = <<>>
    /\ \E k \in DOMAIN events :
          /\ events[k][1] = "raise"
          /\ events[k][2] # 1
          /\ tasks[events[k][2]].status = "failed"
    /\ ret.task = 1

RECURSIVE Ancestors(_)
Ancestors(t) ==
    IF tasks[t].parent_id = 0 THEN {}
    ELSE {tasks[t].parent_id} \cup Ancestors(tasks[t].parent_id)

\* no task of the tree belongs to an alternative of a choice
NoChoice == \A t \in DOMAIN tasks : tasks[t].alt = 0

\* C7: in a task tree without choice decomposition, once an executed leaf
\* has returned unverified every ancestor's solve up to the root returns
\* verified = false; and the Executor is invoked at most once for any task.
C7_LeafFailureReachesRoot ==
    /\ \A t \in DOMAIN tasks :
          Cardinality({k \in DOMAIN events : EventIs(k, "execute", t, 0)}) <= 1
    /\ NoChoice =>
          \A k \in DOMAIN events :
             IsReturn(k, 0) /\ Happened("execute", events[k][2], 0) =>
                \A a \in Ancestors(events[k][2]) :
                   /\ ~Happened("return", a, 1)
                   /\ stack = <<>> => Happened("return", a, 0)

\* root, child and grandchild: the grandchild was executed and came back
\* unverified, and the top-level solve has returned
C7_Witness ==
    /\ stack = <<>>
    /\ NoChoice
    /\ \E l \in DOMAIN tasks :
          /\ Cardinality(Ancestors(l)) = 2
          /\ Happened("execute", l, 0)
          /\ Happened("return", l, 0)
    /\ ~ret.verified

(***************************************************************************)
(* Properties of the checks run_workflow makes (SpecChecks).               *)
(***************************************************************************)
\* the first expression of exprs, in declaration order, that is false in ctx
FirstFalse(exprs, ctx) ==
    exprs[CHOOSE i \in DOMAIN exprs :
             /\ ~evaluate_condition(exprs[i], ctx)
             /\ \A j \in 1..(i - 1) : evaluate_condition(exprs[j], ctx)]

SomeFalse(exprs, ctx) == \E i \in DOMAIN exprs : ~evaluate_condition(exprs[i], ctx)

\* the run was aborted by a precondition
PreconditionAbort == wpc = "aborted" /\ werr[1] = "Precondition failed"

\* the step that seeds the context meets a false precondition and aborts,
\* naming the first false one
StartAbortsOnFalsePrecondition ==
    wpc = "start" /\ SomeFalse(wf.preconditions, context') =>
       /\ wpc' = "aborted"
       /\ werr' = <<"Precondition failed", FirstFalse(wf.preconditions, context')>>

\* C11: when a precondition is false in the seed context, run_workflow
\* aborts with an error naming the first failing precondition in declaration
\* order; no node is executed and no agent has been instantiated or run.
C11_PreconditionAbort ==
    /\ [][StartAbortsOnFalsePrecondition]_vars
    /\ [](PreconditionAbort =>
             /\ executed = {}
             /\ execOrder = <<>>
             /\ \E inputs \in InputSet : context = SeedContext(inputs)
             /\ wout = EmptyCtx)
    /\ [][~PreconditionAbort]_vars

\* the first precondition holds, the second is false, and the run aborted
\* naming the second
C11_Witness ==
    /\ PreconditionAbort
    /\ Len(wf.preconditions) = 2
    /\ werr[2] = wf.preconditions[2]
    /\ evaluate_condition(wf.preconditions[1], context)
    /\ Len(wf.nodes) >= 2

\* the tests of a node as run_workflow evaluates them
NormalizedTests(node) == [i \in DOMAIN node.tests |-> _normalize(node.tests[i])]

\* index of the first test of node that is false in ctx
FirstFalseTest(node, ctx) ==
    CHOOSE i \in DOMAIN node.tests :
       /\ ~evaluate_condition(_normalize(node.tests[i]), ctx)
       /\ \A j \in 1..(i - 1) : evaluate_condition(_normalize(node.tests[j]), ctx)

\* the run was aborted by a node test
TestAbort == wpc = "aborted" /\ werr[1] = "Test failed for node"

\* the agent of the node at the head of the queue has produced its outputs,
\* they are merged, and one of the node's tests is false: the step aborts
NodeStepAbortsOnFalseTest ==
    /\ wpc = "loop" /\ ready # <<>> /\ Head(ready).id \notin executed
    /\ werr'[1] # "agent raised"
    /\ SomeFalse(NormalizedTests(Head(ready)), context')
    => /\ wpc' = "aborted"
       /\ werr' = <<"Test failed for node", Head(ready).id,
                    Head(ready).tests[FirstFalseTest(Head(ready), context')]>>
       /\ executed' = executed
       /\ execOrder' = execOrder

\* C12: when a test of a node is false after the node's outputs are merged,
\* the run aborts at once with an error naming the node and its first
\* failing test; the node is not marked executed, nothing is executed
\* afterwards, and no output mapping is returned.
C12_TestAbort ==
    /\ [][NodeStepAbortsOnFalseTest]_vars
    /\ [](TestAbort => werr[2] \notin executed /\ wout = EmptyCtx)
    /\ [][~TestAbort]_vars

\* a node whose first test holds and whose second test is false aborted the
\* run while another node was still queued and a successor was waiting
C12_Witness ==
    /\ TestAbort
    /\ werr[3] = NodeById(wf, werr[2]).tests[2]
    /\ ready # <<>>
    /\ \E i \in DOMAIN wf.edges : wf.edges[i].src = werr[2]
    /\ "r" \in DOMAIN context

\* C13: the mapping run_workflow returns is the final context restricted to
\* the declared output names: every returned key is a declared output that
\* is bound in the final context and carries its value there, and a declared
\* output that was never bound is not a key of the result.
C13_OutputsRestrictContext ==
    wpc = "returned" =>
       /\ \A k \in DOMAIN wout :
             /\ k \in Range(wf.outputs)
             /\ k \in DOMAIN context
             /\ wout[k] = context[k]
       /\ \A k \in Range(wf.outputs) : k \in DOMAIN context => k \in DOMAIN wout
       /\ \A k \in Range(wf.outputs) : k \notin DOMAIN context => k \notin DOMAIN wout

(***************************************************************************)
(* Order of execution (SpecRun).                                           *)
(***************************************************************************)
\* the ids of the nodes without incoming edge, in declaration order
RootIds(workflow) ==
    LET roots == SelectSeq(workflow.nodes, LAMBDA n : _indegree(workflow, n.id) = 0)
    IN [i \in DOMAIN roots |-> roots[i].id]

PositionIn(seq, x) == CHOOSE i \in DOMAIN seq : seq[i] = x

\* a step executes at most one node, the one at the head of the queue, and
\* leaves the rest of the queue in its order, new nodes going to the back
FifoStep ==
    /\ execOrder' # execOrder =>
          /\ ready # <<>>
          /\ execOrder' = Append(execOrder, Head(ready).id)
    /\ wpc = "loop" /\ ready' # ready =>
          /\ Len(ready') >= Len(ready) - 1
          /\ SubSeq(ready', 1, Len(ready) - 1) = Tail(ready)

\* C14: run_workflow executes one node at a time in FIFO order of
\* readiness: the nodes of in-degree 0 run first, in declaration order, the
\* others in the order in which they were appended to the queue, and the
\* execution order is a topological order of the executed sub-graph.
C14_FifoOrder ==
    /\ [][FifoStep]_vars
    /\ [](\A i \in DOMAIN execOrder :
             i <= Len(RootIds(wf)) => execOrder[i] = RootIds(wf)[i])
    /\ [](\A k \in DOMAIN wf.edges :
             wf.edges[k].src \in executed /\ wf.edges[k].dest \in executed =>
                PositionIn(execOrder, wf.edges[k].src)
                   < PositionIn(execOrder, wf.edges[k].dest))
    /\ [](executed = Range(execOrder) /\ Cardinality(executed) = Len(execOrder))

\* two roots a and b ran in declaration order before their common successor
C14_Witness ==
    /\ wpc = "returned"
    /\ execOrder = <<"a", "b", "c">>
    /\ RootIds(wf) = <<"a", "b">>
    /\ \E k \in DOMAIN wf.edges : wf.edges[k].src = "b" /\ wf.edges[k].dest = "c"

(***************************************************************************)
(* Properties of the guard evaluators (SpecGuard).                         *)
(***************************************************************************)
SupportedOps == {"Eq", "NotEq", "Lt", "LtE", "Gt", "GtE"}

\* the expression contains a construct outside names, literals, the six
\* comparisons and and/or
RECURSIVE UsesUnsupported(_)
UsesUnsupported(e) ==
    CASE e[1] \in {"Name", "Constant", "Empty", "SyntaxError"} -> FALSE
      [] e[1] = "Compare" ->
            \/ \E i \in DOMAIN e[3] : e[3][i] \notin SupportedOps
            \/ UsesUnsupported(e[2])
            \/ \E i \in DOMAIN e[4] : UsesUnsupported(e[4][i])
      [] e[1] = "BoolOp" -> \E i \in DOMAIN e[3] : UsesUnsupported(e[3][i])
      [] OTHER -> TRUE

\* evaluating e in ctx reaches a name that ctx does not bind
RECURSIVE LooksUpUnbound(_, _)
RECURSIVE ChainLooksUpUnbound(_, _, _, _)
ChainLooksUpUnbound(left, ops, comparators, ctx) ==
    /\ ops # <<>>
    /\ \/ LooksUpUnbound(Head(comparators), ctx)
       \/ LET right == _eval(Head(comparators), ctx)
          IN /\ right # Raise
             /\ CompareOp(Head(ops), left, right) # Raise
             /\ Truthy(CompareOp(Head(ops), left, right))
             /\ ChainLooksUpUnbound(right, Tail(ops), Tail(comparators), ctx)
LooksUpUnbound(e, ctx) ==
    CASE e[1] = "Name" -> e[2] \notin DOMAIN ctx
      [] e[1] = "BoolOp" ->
            \E i \in DOMAIN e[3] :
               /\ LooksUpUnbound(e[3][i], ctx)
               /\ \A j \in 1..(i - 1) : _eval(e[3][j], ctx) # Raise
      [] e[1] = "Compare" ->
            \/ LooksUpUnbound(e[2], ctx)
            \/ /\ _eval(e[2], ctx) # Raise
               /\ ChainLooksUpUnbound(_eval(e[2], ctx), e[3], e[4], ctx)
      [] OTHER -> FALSE

\* evaluate_condition has returned for gexpr and gctx
Evaluated == gpc = "evaluate_condition"
\* the text is neither empty nor "true", so that it is parsed and evaluated
Parsed == lower(gexpr) \notin {<<"Empty">>, Name("true")}

\* C15: evaluate_condition returns a boolean and does not raise; it returns
\* false when the expression does not parse, when it uses an unsupported
\* operator or construct, and when its evaluation looks up an unbound name.
C15_FailsSafe ==
    Evaluated =>
       /\ gres \in BOOLEAN
       /\ gexpr = <<"SyntaxError">> => gres = FALSE
       /\ UsesUnsupported(gexpr) => gres = FALSE
       /\ Parsed /\ LooksUpUnbound(lower(gexpr), gctx) => gres = FALSE

\* C16: and/or short-circuit from left to right: `A or B` is true whenever
\* A evaluates true and `A and B` is false whenever A evaluates false,
\* whatever B is, also when B refers to an unbound name.
C16_ShortCircuit ==
    Evaluated /\ gexpr[1] = "BoolOp" =>
       LET A == _eval(lower(gexpr[3][1]), gctx)
       IN /\ gexpr[2] = "Or" /\ A # Raise /\ Truthy(A) => gres = TRUE
          /\ gexpr[2] = "And" /\ A # Raise /\ ~Truthy(A) => gres = FALSE

\* C17: evaluate_condition interprets names, literals, the six comparisons
\* and and/or only: an expression with any other construct evaluates to
\* false, and the evaluation calls nothing and leaves the context as it was.
C17_ClosedGrammar ==
    [][gpc = "call" /\ gpc' = "evaluate_condition" =>
          /\ UsesUnsupported(gexpr) => gres' = FALSE
          /\ gcalls' = gcalls
          /\ gctx' = gctx]_vars

\* C18: the declarative decomposer's guard evaluation agrees with
\* evaluate_condition on every condition and context, executes no call or
\* method invocation of the condition and leaves the task's inputs as they
\* were.
C18_SameGrammar ==
    [][gpc = "call" /\ gpc' = "_eval_simple_condition"
         => /\ gres' = evaluate_condition(gexpr, gctx)
            /\ gcalls' = 0
            /\ gctx' = gctx]_vars

\* the three parts of C18, one at a time
C18_SameBoolean ==
    [][gpc = "call" /\ gpc' = "_eval_simple_condition"
         => gres' = evaluate_condition(gexpr, gctx)]_vars
C18_NoCallExecuted ==
    [][gpc = "call" /\ gpc' = "_eval_simple_condition" => gcalls' = 0]_vars
C18_InputsKept ==
    [][gpc = "call" /\ gpc' = "_eval_simple_condition" => gctx' = gctx]_vars

\* the positions of events at which the Executor was invoked on t
Executions(t) == {k \in DOMAIN events : EventIs(k, "execute", t, 0)}

\* t is not atomic, the Decomposer returned neither sub-tasks nor
\* alternatives for it and left its result null (a result the Decomposer
\* sets is of kind "prefilled" and is never replaced)
UndecomposedLeaf(t) ==
    /\ ~tasks[t].is_atomic
    /\ Decomposed(t)
    /\ DecompositionOf(t).sub_tasks = <<>>
    /\ DecompositionOf(t).alternatives = <<>>
    /\ tasks[t].result.kind # "prefilled"
    /\ ~Happened("raise", t, WhoCode("decomposer"))

\* event n is the return of what _execute_atomic_task makes of the
\* execution at event k: the Executor raised, the Verifier raised, or the
\* Executor's result is returned with the Verifier's verdict
ReturnsExecution(t, k, n) ==
    LET last == n = Len(events)
    IN \/ /\ EventIs(k + 1, "raise", t, WhoCode("executor"))
          /\ n = k + 2
          /\ tasks[t].result.null
          /\ last => ret = RetOf(t, NullResult, FALSE,
                                 ExceptionMessage("executor", t))
       \/ /\ EventIs(k + 1, "verify", t, 0)
          /\ EventIs(k + 2, "raise", t, WhoCode("verifier"))
          /\ n = k + 3
          /\ last => ret = RetOf(t, NullResult, FALSE,
                                 ExceptionMessage("verifier", t))
       \/ /\ EventIs(k + 1, "verify", t, 0)
          /\ n = k + 2
          /\ tasks[t].result.kind = "exec"
          /\ tasks[t].status = IF events[n][3] = 1 THEN "verified"
                               ELSE "completed"
          /\ last => ret = RetOf(t, tasks[t].result, events[n][3] = 1, NoError)

\* event k is the Decomposer returning, for a non-atomic task, neither
\* sub-tasks nor alternatives nor a result
ReturnsUndecomposed(k) ==
    /\ events[k][1] = "decompose"
    /\ events[k][3].sub_tasks = <<>>
    /\ events[k][3].alternatives = <<>>
    /\ tasks[events[k][2]].result.kind # "prefilled"
    /\ ~EventIs(k + 1, "raise", events[k][2], WhoCode("decomposer"))

\* C19: for a non-atomic task whose decomposition has no sub-tasks and no
\* alternatives and whose result is null after the Decomposer returns, solve
\* invokes Executor.execute on the task exactly once, right after the
\* decomposition, and returns the outcome of that execution.
C19_UndecomposedLeafExecutedOnce ==
    \A k \in DOMAIN events :
       ReturnsUndecomposed(k) =>
          LET t == events[k][2]
          IN /\ k = Len(events) \/ EventIs(k + 1, "execute", t, 0)
             /\ \A m \in DOMAIN events :
                   /\ EventIs(m, "execute", t, 0) => m = k + 1
                   /\ events[m][1] = "return" /\ events[m][2] = t
                         => ReturnsExecution(t, k + 1, m)

\* the non-atomic root came back from the Decomposer without sub-tasks and
\* without a result, was executed and its execution result returned verified
C19_Witness ==
    /\ stack = <<>>
    /\ UndecomposedLeaf(1)
    /\ Cardinality(Executions(1)) = 1
    /\ ret = RetOf(1, tasks[1].result, TRUE, NoError)
    /\ tasks[1].result.kind = "exec"

(***************************************************************************)
(* Properties of the depth limit (SpecDepth).                              *)
(***************************************************************************)
\* C20: a task that solve reaches at a depth greater than or equal to the
\* max_depth given to the constructor is executed as atomic instead of being
\* decomposed: the Decomposer is not called on it and it gets no sub-tasks;
\* in particular with max_depth = 0 the non-atomic root is executed
\* atomically.
C20_MaxDepthRespected ==
    \A k \in DOMAIN events :
       IsSolve(k) /\ events[k][3] >= max_depth =>
          LET t == events[k][2]
          IN /\ ~Decomposed(t)
             /\ tasks[t].sub_tasks = <<>>
             /\ Happened("return", t, 0) \/ Happened("return", t, 1)
                   => Happened("execute", t, 0)

(***************************************************************************)
(* Properties of the executor scenarios (SpecScenario).                    *)
(***************************************************************************)
\* the run of Scenario A's workflow with x = v has ended
ScenarioRunOver(v) ==
    /\ wf = ScenarioA
    /\ wpc \in {"aborted", "returned"}
    /\ "x" \in DOMAIN context
    /\ context["x"] = VInt(v)

SuccessCriteriaFailed == <<"Success criteria failed", ResultGt5>>

\* C21 as stated: the workflow of Scenario A run with x = 2 ends with final
\* result = 4 and aborts with "Success criteria failed".
C21_Original ==
    ScenarioRunOver(2) =>
       /\ context["result"] = VInt(4)
       /\ wpc = "aborted"
       /\ werr = SuccessCriteriaFailed

\* C21, amended: the workflow of Scenario A run with x = v executes step1 and
\* then step2 and ends with final result = 4 * v; with x = 2 that is 8, the
\* success criterion holds and {result: 8} is returned; the run aborts with
\* "Success criteria failed" exactly when 4 * v <= 5, as with x = 1 (final
\* result = 4).
C21_Amended ==
    \A v \in 0..MaxX :
       ScenarioRunOver(v) =>
          /\ execOrder = <<"step1", "step2">>
          /\ context["result"] = VInt(4 * v)
          /\ IF 4 * v > 5
             THEN /\ wpc = "returned"
                  /\ wout = [n \in {"result"} |-> VInt(4 * v)]
                  /\ werr = Ok
             ELSE /\ wpc = "aborted"
                  /\ werr = SuccessCriteriaFailed
                  /\ wout = EmptyCtx

\* Scenario A's workflow was run with x = 2 and has returned {result: 8}
C21_Witness ==
    /\ ScenarioRunOver(2)
    /\ wpc = "returned"
    /\ wout = [n \in {"result"} |-> VInt(8)]

\* event k is the Decomposer returning neither sub-tasks nor alternatives
\* for a task whose result it has set
ReturnsPrefilled(k) ==
    /\ events[k][1] = "decompose"
    /\ events[k][3].sub_tasks = <<>>
    /\ events[k][3].alternatives = <<>>
    /\ tasks[events[k][2]].result.kind = "prefilled"

\* C22: when the Decomposer returns no sub-tasks (and no alternatives) and
\* task.result is not null, solve never invokes the Executor for the task:
\* the Verifier is called next, and unless it raises solve returns
\* task.result with verified equal to the verdict and the status is
\* 'verified' for a valid verdict and 'completed' otherwise.
C22_ReturnShortcut ==
    \A k \in DOMAIN events :
       ReturnsPrefilled(k) =>
          LET t == events[k][2]
              v == events[k + 2][3] = 1
          IN /\ \A m \in DOMAIN events : ~EventIs(m, "execute", t, 0)
             /\ k = Len(events) \/ EventIs(k + 1, "verify", t, 0)
             /\ k + 2 <= Len(events) /\ events[k + 2][1] # "raise" =>
                   /\ events[k + 2][1] = "return"
                   /\ events[k + 2][2] = t
                   /\ tasks[t].status = IF v THEN "verified" ELSE "completed"
                   /\ k + 2 = Len(events) =>
                         ret = RetOf(t, tasks[t].result, v, NoError)

\* the Decomposer set the root's result and returned no sub-tasks; the
\* Verifier found it valid and solve has returned it, without any execution
C22_Witness ==
    /\ stack = <<>>
    /\ Len(events) = 4
    /\ ReturnsPrefilled(2)
    /\ tasks[1].status = "verified"
    /\ ret = RetOf(1, tasks[1].result, TRUE, NoError)
    /\ \A m \in DOMAIN events : events[m][1] # "execute"

\* t is a task that _execute_atomic_task handles: it is flagged atomic, or
\* it is (about to be) executing, or the Executor has been invoked on it
InAtomicExecution(t) ==
    \/ tasks[t].is_atomic
    \/ tasks[t].status = "executing"
    \/ tasks'[t].status = "executing"
    \/ Happened("execute", t, 0)

\* the status changes C23 lists
ListedTransitions ==
    {<<"pending", "executing">>, <<"executing", "completed">>,
     <<"executing", "failed">>, <<"completed", "verified">>}

\* in this step a collaborator raised in the solve call of t
RaisesIn(who, t) ==
    \E k \in (Len(events) + 1)..Len(events') :
       events'[k] = <<"raise", t, WhoCode(who)>>

\* a step changes the status of a task in atomic execution only along
\* the changes of `allowed`
StatusSteps(allowed) ==
    \A t \in DOMAIN tasks :
       InAtomicExecution(t) /\ tasks'[t].status # tasks[t].status =>
          <<tasks[t].status, tasks'[t].status>> \in allowed

\* how the status of a task the Executor was invoked on ends: event n is the
\* return of its solve call
ReturnedWith(t, n) ==
    /\ events[n][1] = "return"
    /\ events[n][2] = t
    /\ Happened("execute", t, 0)

EndStatus(t, n) ==
    IF Happened("raise", t, WhoCode("executor"))
       \/ Happened("raise", t, WhoCode("verifier"))
    THEN "failed"
    ELSE IF events[n][3] = 1 THEN "verified" ELSE "completed"

\* C23 as stated: a status changes only along pending -> executing,
\* executing -> completed, executing -> failed and completed -> verified.
C23_Original == [][StatusSteps(ListedTransitions)]_vars

\* C23, amended: during atomic execution a task's status changes only along
\* pending -> executing, executing -> completed, executing -> failed,
\* completed -> verified and, when the Verifier raises, completed -> failed;
\* it never returns to pending or executing and does not change after the
\* return; it ends as 'verified' exactly when the Executor returned and the
\* verdict was valid, as 'completed' when the verdict was invalid, and as
\* 'failed' when the Executor or the Verifier raised.
C23_Amended ==
    /\ [][/\ StatusSteps(ListedTransitions \cup {<<"completed", "failed">>})
          /\ \A t \in DOMAIN tasks :
                InAtomicExecution(t) =>
                   /\ tasks[t].status = "completed" /\ tasks'[t].status = "failed"
                         => RaisesIn("verifier", t)
                   /\ tasks[t].status = "executing" /\ tasks'[t].status = "failed"
                         => RaisesIn("executor", t)
                   /\ (\E n \in DOMAIN events : ReturnedWith(t, n))
                         => tasks'[t].status = tasks[t].status]_vars
    /\ [](\A n \in DOMAIN events :
             ReturnedWith(events[n][2], n) =>
                tasks[events[n][2]].status = EndStatus(events[n][2], n))

\* the Executor returned for the atomic root, its status was 'completed',
\* then the Verifier raised and the root ended as 'failed'
C23_Witness ==
    /\ stack = <<>>
    /\ tasks[1].is_atomic
    /\ tasks[1].status = "failed"
    /\ events = <<<<"solve", 1, 0>>, <<"execute", 1, 0>>, <<"verify", 1, 0>>,
                  <<"raise", 1, WhoCode("verifier")>>, <<"return", 1, 0>>>>

\* the sub-task the loop over the sub-tasks of Top.task is at
CurrentSubTask == Top.decomposition.sub_tasks[Top.i]

\* the loop (line 201) is about to handle a sub-task that carries guards
AtGuardedSubTask ==
    /\ At("sub_loop")
    /\ Top.i <= Len(Top.decomposition.sub_tasks)
    /\ tasks[CurrentSubTask].guard_conditions # <<>>

SomeGuardHolds ==
    \E g \in DOMAIN tasks[CurrentSubTask].guard_conditions :
       evaluate_condition(tasks[CurrentSubTask].guard_conditions[g], Top.context)

\* the step calls solve on the current sub-task, one level deeper
SolvesCurrentSubTask ==
    /\ Len(stack') = Len(stack) + 1
    /\ stack'[Len(stack')] = Frame(CurrentSubTask, Top.depth + 1)

\* the step goes on to the next sibling and leaves the sub-results, the
\* running context, the tasks and the value returned last as they are
SkipsCurrentSubTask ==
    /\ Len(stack') = Len(stack)
    /\ stack'[Len(stack)] = [Top EXCEPT !.i = @ + 1]
    /\ tasks' = tasks
    /\ ret' = ret

\* C24: a sub-task with a non-empty guard list is solved if and only if at
\* least one of its guards evaluates true against the parent's running
\* context when the loop reaches it; a skipped sub-task is never solved or
\* executed, adds nothing to the sub-results, leaves the running context
\* unchanged and does not end the parent's loop, which goes on with the next
\* sibling.
C24_GuardedSubTasks ==
    /\ [][AtGuardedSubTask /\ stack' # stack =>
             IF SomeGuardHolds THEN SolvesCurrentSubTask
             ELSE SkipsCurrentSubTask]_vars
    /\ [](\A k \in DOMAIN events :
             events[k][1] = "skip" =>
                /\ tasks[events[k][2]].status = "pending"
                /\ \A m \in DOMAIN events :
                      events[m][2] = events[k][2] => events[m][1] = "skip")

\* the root's first sub-task was skipped because none of its guards held,
\* the second was solved after it and the root has returned verified
C24_Witness ==
    /\ stack = <<>>
    /\ ret.verified
    /\ Len(tasks[1].sub_tasks) = 2
    /\ tasks[tasks[1].sub_tasks[1]].guard_conditions # <<>>
    /\ Happened("skip", tasks[1].sub_tasks[1], 0)
    /\ Happened("return", tasks[1].sub_tasks[2], 1)

(***************************************************************************)
(* Properties of input resolution and of the running context (SpecContext) *)
(***************************************************************************)
Overlay(ctx, upd) ==
    [k \in DOMAIN ctx \cup DOMAIN upd |-> IF k \in DOMAIN upd THEN upd[k] ELSE ctx[k]]

\* what the output mapping of sub-task s declares: parent key <- child key
MappedOutputs(s) ==
    LET res == tasks[s].result.data
        om == tasks[s].outputs
    IN [pk \in {k \in DOMAIN om : om[k] \in DOMAIN res} |-> res[om[pk]]]

\* the parent's inputs overlaid with what the first n sub-tasks of p produced;
\* a skipped sub-task is still pending and adds nothing
RECURSIVE ContextAfter(_, _)
ContextAfter(p, n) ==
    IF n = 0 THEN heap[tasks[p].inputs]
    ELSE LET c == ContextAfter(p, n - 1)
             s == tasks[p].sub_tasks[n]
         IN IF tasks[s].status = "pending" \/ tasks[s].result.null THEN c
            ELSE Overlay(Overlay(c, MappedOutputs(s)), tasks[s].result.data)

\* the inputs `new` are the inputs `old` resolved against ctx
ResolvedAgainst(old, new, ctx) ==
    /\ DOMAIN new = DOMAIN old
    /\ \A k \in DOMAIN old :
          IF old[k].t = "str" /\ StrTable[old[k].v] \in DOMAIN ctx
          THEN new[k] = ctx[StrTable[old[k].v]]
          ELSE IF old[k].t = "none" /\ k \in DOMAIN ctx
          THEN new[k] = ctx[k]
          ELSE new[k] = old[k]

SubTaskInputsResolved ==
    (At("sub_loop") /\ Len(stack') = Len(stack) + 1)
    => LET ref == tasks[stack'[Len(stack')].task].inputs
       IN ResolvedAgainst(heap[ref], heap'[ref], ContextAfter(Top.task, Top.i - 1))

RunningContextIsOverlay ==
    \A d \in DOMAIN stack :
        stack[d].decomposition.sub_tasks # <<>>
        => stack[d].context = ContextAfter(stack[d].task, stack[d].i - 1)

\* C25: when solve is called on sub-task i, each input that is a string
\* naming a key of the running context has been replaced by that key's value,
\* each None input whose own name is a key of the context by the same-named
\* value, and every other input is as it was; the running context is the
\* parent's inputs overlaid, in sibling order, with the mapped outputs and
\* then the raw result keys of every earlier sibling that was solved.
C25_ContextPropagation ==
    /\ [][SubTaskInputsResolved]_vars
    /\ []RunningContextIsOverlay

\* the root has ok = 2; the first sub-task maps ok <- r and r <- s and produced
\* r = 1, s = 0; the second, declared with a = "ok" and r = None, is being
\* solved with a = 1 and r = 1
C25_Witness ==
    /\ Len(stack) = 2
    /\ Len(tasks) = 3
    /\ Top.task = 3
    /\ heap[tasks[1].inputs] = [k \in {"ok", "a"} |-> IF k = "ok" THEN VInt(2) ELSE VInt(3)]
    /\ tasks[2].status = "verified"
    /\ tasks[2].outputs # EmptyCtx
    /\ tasks[2].result.data = [k \in {"r", "s"} |-> IF k = "r" THEN VInt(1) ELSE VInt(0)]
    /\ stack[1].context = [k \in {"ok", "a", "r", "s"} |->
                              IF k = "a" THEN VInt(3) ELSE IF k = "s" THEN VInt(0) ELSE VInt(1)]
    /\ heap[tasks[3].inputs] = [k \in {"a", "r"} |-> VInt(1)]

(***************************************************************************)
(* Properties of the " then " decomposition (SpecThen)                     *)
(***************************************************************************)
\* task t is the j-th sub-task of its parent
PositionOf(t) ==
    CHOOSE j \in DOMAIN tasks[tasks[t].parent_id].sub_tasks :
        tasks[tasks[t].parent_id].sub_tasks[j] = t

\* the Executor is about to be called on a sub-task after the first
ExecutingLaterSubTask(t) ==
    /\ At("execute")
    /\ Top.task = t
    /\ tasks[t].parent_id # 0
    /\ PositionOf(t) > 1

\* C26: in a " then " decomposition every sub-task after the first reaches
\* the Executor with inputs that are not empty and that contain every output
\* of the sub-task before it.
C26_LaterInputsFilled ==
    \A t \in DOMAIN tasks :
        ExecutingLaterSubTask(t)
        => LET prev == tasks[tasks[tasks[t].parent_id].sub_tasks[PositionOf(t) - 1]].result.data
               inputs == heap[tasks[t].inputs]
           IN /\ inputs # EmptyCtx
              /\ \A k \in DOMAIN prev : k \in DOMAIN inputs /\ inputs[k] = prev[k]

(***************************************************************************)
(* Properties of the decomposers (SpecDecompose)                           *)
(***************************************************************************)
DecompositionInvariant(d) ==
    /\ (d.alternatives # <<>>) <=> (d.decomposition_strategy = "choice")
    /\ (d.sub_tasks = <<>>) <=> (d.decomposition_strategy \in {"none", "choice"})

\* C27: whatever the decomposer, the task and the specification, the returned
\* DecompositionResult has alternatives exactly when its strategy is choice
\* and has no sub-tasks exactly when its strategy is none or choice.
C27_DecompositionInvariant ==
    callee = "returned" => DecompositionInvariant(returned)

\* the same for the two rule-based decomposers alone
C27_RuleBasedInvariant ==
    (callee = "returned" /\ arguments.decomposer # "YamlTaskDecomposer")
    => DecompositionInvariant(returned)

(***************************************************************************)
(* Properties of ResultCombiner.combine (SpecCombine)                      *)
(***************************************************************************)
CombinedWith(plans) ==
    /\ callee = "returned"
    /\ arguments.sub_results # <<>>
    /\ arguments.recombination_plan \in plans

\* C28: for a non-empty list of sub-results and a plan tagged merge, the text
\* "Merge: ..." as well as the tag "merge", combine returns the aggregate
\* object and not one of the sub-results.
C28_MergeAggregates ==
    CombinedWith({"Merge", "merge"}) => returned.kind = "aggregate"

\* the same for the text "Merge: ..." alone and sub-results that have a result
C28_MergeTextAggregates ==
    (/\ CombinedWith({"Merge"})
     /\ \A j \in DOMAIN arguments.sub_results : ~arguments.sub_results[j].result.null)
    => returned.kind = "aggregate"

(***************************************************************************)
(* Properties of the execution log (SpecLog)                               *)
(***************************************************************************)
\* the log before the step is an initial segment of the log after it
LogExtended ==
    /\ Len(execution_log') >= Len(execution_log)
    /\ SubSeq(execution_log', 1, Len(execution_log)) = execution_log

\* the first step of a solve call (the frame is at line 90) appends an entry
SolveCallAppends == At("solve") => Len(execution_log') > Len(execution_log)

\* a call returns: its frame leaves the stack
SolveReturns == Len(stack') < Len(stack)

\* the 'logs' entry of the returned dict holds the whole log of that moment
ReturnsWholeLog == SolveReturns => logs' = execution_log'

\* C30: across any sequence of solve calls on one MetaAgent the execution
\* log changes only by appending (no entry is removed, reordered or
\* altered), every solve call, recursive ones included, appends at least one
\* entry, and the 'logs' value of every returned result is the entire log as
\* of that return.
C30_ExecutionLog == [][LogExtended /\ SolveCallAppends /\ ReturnsWholeLog]_vars

\* the second top-level call has returned after a recursive call was made,
\* and the log it returned contains the entries of the first call
C30_Witness ==
    /\ stack = <<>>
    /\ Cardinality({k \in DOMAIN events :
                       events[k][1] = "solve" /\ events[k][3] = 0}) = 2
    /\ \E k \in DOMAIN events : events[k][1] = "solve" /\ events[k][3] = 1
    /\ logs = execution_log
    /\ Len(logs) > 6

(***************************************************************************)
(* Properties of the inputs of the task passed to solve (SpecAnd)          *)
(***************************************************************************)
\* the top-level call solve(root) has returned
RootSolved == stack = <<>> /\ ret # NoRet

\* C31: the inputs mapping of the task passed to solve is the same after
\* solve returns as before, also when the rule-based decomposer splits the
\* description on " and " and hands the parent's inputs to every sub-task.
C31_InputsUnchanged == RootSolved => heap[tasks[1].inputs] = arguments.inputs

\* the same for a root whose inputs hold no string that names one of their
\* own keys
C31_PlainInputsUnchanged ==
    (RootSolved /\ arguments.inputs \in ContextRootInputs)
        => heap[tasks[1].inputs] = arguments.inputs

\* C32: in one run of run_workflow every node is executed at most once,
\* even when it is appended to the readiness queue more than once.
C32_ExecutedAtMostOnce ==
    \A i, j \in DOMAIN execOrder : i # j => execOrder[i] # execOrder[j]

\* two edges from the same predecessor to the same node both had a true
\* guard, so the node was queued twice, and the run has returned
C32_Witness ==
    /\ wpc = "returned"
    /\ \E i, j \in DOMAIN wf.edges :
          /\ i < j
          /\ wf.edges[i].src = wf.edges[j].src
          /\ wf.edges[i].dest = wf.edges[j].dest
          /\ {i, j} \subseteq guardTrue
          /\ wf.edges[i].dest \in executed

\* the readiness queue has drained: the loop of lines 32-51 is over and the
\* success criteria are being, or have been, evaluated
QueueDrained ==
    \/ wpc = "loop" /\ ready = <<>>
    \/ wpc = "returned"
    \/ wpc = "aborted" /\ werr[1] \in {"Success criteria failed", "Failure condition met"}

\* C33: for a compiled workflow in which every edge guard evaluates true and
\* no node test fails, every node of the workflow has been executed exactly
\* once by the time the readiness queue drains and the success criteria are
\* evaluated.
C33_AllNodesExecutedOnce ==
    (QueueDrained /\ guardFalse = {})
        => /\ executed = {wf.nodes[i].id : i \in DOMAIN wf.nodes}
           /\ Len(execOrder) = Len(wf.nodes)
           /\ \A i \in DOMAIN wf.nodes :
                 Cardinality({k \in DOMAIN execOrder : execOrder[k] = wf.nodes[i].id}) = 1

\* the run has returned from a three-node workflow with a fan-in whose
\* guards, one of them r == 1, were all evaluated true
C33_Witness ==
    /\ wpc = "returned"
    /\ guardFalse = {}
    /\ Len(wf.nodes) = 3
    /\ \E i, j \in DOMAIN wf.edges :
          /\ wf.edges[i].src # wf.edges[j].src
          /\ wf.edges[i].dest = wf.edges[j].dest
          /\ wf.edges[i].when = RIsOne
          /\ {i, j} \subseteq guardTrue

\* the nodes that are the destination of no edge
RootCount(workflow) ==
    Cardinality({i \in DOMAIN workflow.nodes :
                    \A k \in DOMAIN workflow.edges :
                       workflow.edges[k].dest # workflow.nodes[i].id})

DequeuesBounded == dequeues <= RootCount(wf) + Len(wf.edges)

RunOver == wpc \in {"returned", "aborted"}

\* C34: run_workflow terminates for every workflow accepted by
\* load_workflow, provided each agent call returns: the readiness queue
\* drains after at most (number of root nodes + number of edges) dequeues,
\* whatever the guards evaluate to.
C34_Terminates == []DequeuesBounded /\ <>RunOver

\* a run that returned after as many dequeues as the bound allows, one of
\* them of a node that had already been executed
C34_Witness ==
    /\ wpc = "returned"
    /\ Len(wf.edges) = MaxEdges - 1
    /\ dequeues = RootCount(wf) + Len(wf.edges)
    /\ dequeues > Len(execOrder)

\* a run that returned although a guard was evaluated false
C34_WitnessFalseGuard == wpc = "returned" /\ guardFalse # {} /\ dequeues >= 2

(***************************************************************************)
(* Properties of the status a solve call leaves behind (SpecSolve)         *)
(***************************************************************************)
\* the innermost solve call returns in this step
SolveReturnsNow == stack # <<>> /\ stack' = Pop

StatusMatchesVerified ==
    SolveReturnsNow => ((tasks'[Top.task].status = "verified") <=> ret'.verified)

\* C35: on return from any solve call (atomic, return-shortcut, choice, or
\* decomposed into sub-tasks) the task's status is 'verified' if and only if
\* the returned verified flag is true.
C35_StatusIffVerified == [][StatusMatchesVerified]_vars

\* the same for the calls that did not go through the sub-task loop
C35_StatusIffVerifiedElsewhere ==
    [][Top.pc # "verify_combined" => StatusMatchesVerified]_vars

(***************************************************************************)
(* Properties of what solve hands to the Combiner (SpecSolve)              *)
(***************************************************************************)
\* solve is about to call Combiner.combine (line 147 or lines 257-262)
AboutToCombine == At("combine") \/ At("alt_combine")

\* C36: whenever solve invokes Combiner.combine, for a choice alternative or
\* for a decomposed task, every sub-result passed to it has verified = true.
C36_CombinedAreVerified ==
    AboutToCombine => \A j \in DOMAIN Top.sub_results : Top.sub_results[j].verified

\* combine is about to be called on the sub-results of a decomposed task
\* all of whose sub-tasks were solved
C36_Witness ==
    /\ At("combine")
    /\ Len(Top.sub_results) = MaxTasks - 1
    /\ \A j \in DOMAIN Top.sub_results : Top.sub_results[j].verified

\* combine is about to be called on the sub-result of a choice alternative
C36_WitnessChoice == At("alt_combine") /\ Len(Top.sub_results) >= 1

(***************************************************************************)
(* Properties of solve with the reference collaborators (SpecReference)    *)
(***************************************************************************)
\* the solve call of a task that was decomposed into sub-tasks returns
\* verified = true
DecomposedReturnsVerified ==
    /\ At("verify_combined")
    /\ stack' = Pop
    /\ ret'.verified

\* C37: with the reference ResultCombiner and TaskVerifier, solve returns
\* verified = true for a task decomposed into sub-tasks only if at least one
\* of its sub-tasks was actually solved and returned verified; a parent whose
\* sub-tasks were all skipped by their guards is not reported as verified.
C37_VerifiedNeedsSolvedSubTask ==
    [][DecomposedReturnsVerified
          => \E j \in DOMAIN Top.sub_results : Top.sub_results[j].verified]_vars

\* a decomposed task is reported verified only with a result that is not
\* None
C37_VerifiedHasResult ==
    [][DecomposedReturnsVerified => ~ret'.result.null]_vars

(***************************************************************************)
(* Properties of exceptions inside a choice decomposition (SpecSolve)      *)
(***************************************************************************)
\* event k is the call of the Combiner or the Verifier on an alternative,
\* and that call raised
RaisedOnAlternative(k) ==
    /\ events[k][1] \in {"combine", "verify"}
    /\ events[k][3] >= 1
    /\ k + 1 \in DOMAIN events
    /\ events[k + 1][1] = "raise"
    /\ events[k + 1][2] = events[k][2]

\* C38: in a choice decomposition, if the Combiner or the Verifier raises
\* while alternative i is being combined or verified, solve ends at once with
\* status 'failed' and the exception message as error, without attempting
\* alternative i+1 or any later alternative and without reporting "All
\* choice alternatives failed".
C38_RaiseEndsChoice ==
    \A k \in DOMAIN events :
       RaisedOnAlternative(k) =>
          LET t == events[k][2]
              who == Collaborators[events[k + 1][3]]
          IN /\ EventIs(k + 2, "return", t, 0)
             /\ tasks[t].status = "failed"
             /\ \A m \in (k + 2)..Len(events) :
                   /\ events[m][1] = "solve" => tasks[events[m][2]].parent_id # t
                   /\ events[m][1] \in {"combine", "verify", "abandon", "rejected"}
                         => events[m][2] # t
             /\ k + 2 = Len(events) =>
                   /\ ret = RetOf(t, NullResult, FALSE, ExceptionMessage(who, t))
                   /\ ret.error # AllAlternativesFailed

\* the Combiner or the Verifier raised on the first of at least two
\* alternatives of the root, and the root's solve has returned
C38_Witness ==
    /\ stack = <<>>
    /\ \E m \in DOMAIN events :
          /\ events[m][1] = "decompose"
          /\ events[m][2] = 1
          /\ Len(events[m][3].alternatives) >= 2
    /\ \E k \in DOMAIN events : RaisedOnAlternative(k) /\ events[k][2] = 1 /\ events[k][3] = 1

(***************************************************************************)
(* Properties of the contexts of choice alternatives (SpecChoice)          *)
(***************************************************************************)
\* the root's inputs, as passed to solve, overlaid with what the first n
\* sub-tasks of the alternative `plan` produced
RECURSIVE AltContextAfter(_, _)
AltContextAfter(plan, n) ==
    IF n = 0 THEN arguments.inputs
    ELSE LET c == AltContextAfter(plan, n - 1)
             s == plan[n]
         IN IF tasks[s].result.null THEN c
            ELSE Overlay(Overlay(c, MappedOutputs(s)), tasks[s].result.data)

\* the alternative a choice frame is working on (none once all are tried)
CurrentPlan(f) ==
    IF f.alt <= Len(f.decomposition.alternatives)
    THEN f.decomposition.alternatives[f.alt] ELSE <<>>

\* the context of a choice frame holds the task's inputs and the outputs of
\* the sub-tasks of the current alternative that were solved, nothing else
AltContextIsOwn ==
    \A d \in DOMAIN stack :
        stack[d].decomposition.alternatives # <<>>
        => stack[d].context = AltContextAfter(CurrentPlan(stack[d]), stack[d].i - 1)

\* solve is called on a sub-task of an alternative: its inputs were resolved
\* against that context
AltInputsResolved ==
    (At("alt_loop") /\ Len(stack') = Len(stack) + 1)
    => LET ref == tasks[stack'[Len(stack')].task].inputs
       IN ResolvedAgainst(heap[ref], heap'[ref],
                          AltContextAfter(CurrentPlan(Top), Top.i - 1))

\* C39: choice alternatives are isolated from one another: each alternative
\* starts from a fresh context equal to the task's inputs, so no output
\* produced by a sub-task of an abandoned alternative is visible in the
\* context or in the resolved inputs of any sub-task of a later alternative.
C39_AlternativesIsolated ==
    /\ []AltContextIsOwn
    /\ [][AltInputsResolved]_vars

\* the root has ok = 2 and a = 3; the sub-task of the first alternative maps
\* ok <- r and produced r = 1, s = 0, and the Verifier rejected the
\* combination; the sub-task of the second alternative, declared with
\* a = "ok" and r = None, is being solved with a = 2 and r = None
C39_Witness ==
    /\ Len(stack) = 2
    /\ Len(tasks) = 3
    /\ stack[1].alt = 2
    /\ Top.task = 3
    /\ arguments.inputs = [k \in {"ok", "a"} |-> IF k = "ok" THEN VInt(2) ELSE VInt(3)]
    /\ tasks[2].status = "verified"
    /\ tasks[2].outputs # EmptyCtx
    /\ tasks[2].result.data = [k \in {"r", "s"} |-> IF k = "r" THEN VInt(1) ELSE VInt(0)]
    /\ Happened("rejected", 1, 1)
    /\ stack[1].context = arguments.inputs
    /\ heap[tasks[3].inputs] = [k \in {"a", "r"} |-> IF k = "a" THEN VInt(2) ELSE VNone]

(***************************************************************************)
(* Properties of the guards checked at the end of a run (SpecCriteria)     *)
(***************************************************************************)
\* the expression cannot be evaluated in the context: it is not one of the
\* texts taken for True unread, and _safe_eval raises on it
CannotEvaluate(expression, ctx) ==
    LET e == lower(expression)
    IN /\ e \notin {<<"Empty">>, Name("true")}
       /\ _safe_eval(e, ctx) = Raise

\* the loop of run_workflow is over and the guards of the end are checked
EndOfRun == wpc = "loop" /\ ready = <<>> /\ wpc' # wpc

AllCriteriaHold ==
    \A i \in DOMAIN wf.success_criteria :
        evaluate_condition(wf.success_criteria[i], context)

\* a success criterion that cannot be evaluated aborts the run
CriterionAborts ==
    (\E i \in DOMAIN wf.success_criteria :
        CannotEvaluate(wf.success_criteria[i], context))
    => /\ wpc' = "aborted"
       /\ werr'[1] = "Success criteria failed"

\* a failure condition that cannot be evaluated is passed over: the run
\* never aborts on it, and returns when nothing else stops it
ConditionPassedOver ==
    /\ (wpc' = "aborted" /\ werr'[1] = "Failure condition met")
       => ~CannotEvaluate(werr'[2], context)
    /\ (/\ AllCriteriaHold
        /\ \A j \in DOMAIN wf.failure_conditions :
              \/ CannotEvaluate(wf.failure_conditions[j], context)
              \/ ~evaluate_condition(wf.failure_conditions[j], context))
       => wpc' = "returned"

\* C40: guard failures are asymmetric at the end of a run: a failure
\* condition that cannot be evaluated (it names something not bound in the
\* final context, or does not parse) counts as not met and never aborts the
\* run, whereas a success criterion that cannot be evaluated counts as failed
\* and aborts the run.
C40_AsymmetricGuards ==
    [][EndOfRun => (CriterionAborts /\ ConditionPassedOver)]_vars

\* a run returned although its failure conditions were a text that does not
\* parse and x == 2 with x not bound in the final context
C40_Witness ==
    /\ wpc = "returned"
    /\ wf.failure_conditions = <<NoParse, XIsTwo>>
    /\ "x" \notin DOMAIN context
    /\ execOrder # <<>>
    /\ \A j \in DOMAIN wf.failure_conditions :
          CannotEvaluate(wf.failure_conditions[j], context)

\* a run aborted on the success criterion x == 2 with x not bound in the
\* final context
C40_WitnessCriterion ==
    /\ wpc = "aborted"
    /\ werr = <<"Success criteria failed", XIsTwo>>
    /\ "x" \notin DOMAIN context
    /\ execOrder # <<>>
    /\ CannotEvaluate(XIsTwo, context)

=============================================================================
